---- MODULE Spec2Model ----
(***************************************************************************)
(* Model of the BOE consolidated-legislation sync (airflow DAG             *)
(* boe_sync_consolidada): the idempotency helpers, the change detector     *)
(* sync_indices and the version ledger writer sync_bloques_batch, run      *)
(* against a PostgreSQL connection (psycopg2, autocommit off, READ         *)
(* COMMITTED).                                                             *)
(*                                                                         *)
(* A table is the set of its rows; the primary key named by the code's     *)
(* ON CONFLICT target is kept by the statement operators.  A transaction   *)
(* is the set of rows it has written and not yet committed.  A server-side *)
(* statement error aborts the transaction: every later statement raises    *)
(* InFailedSqlTransaction and commit() then rolls back.                    *)
(***************************************************************************)
EXTENDS Integers, Sequences, FiniteSets, TLC

VARIABLES upstream, db, tx, proc, hist

vars == <<upstream, db, tx, proc, hist>>

-----------------------------------------------------------------------------
(* Bounds of the model *)

\* length of the dirty-block list handed to sync_bloques_batch in SpecBatch
NumBlocks == 11
\* exceptions, error results and crashes injected over a whole behaviour
MaxFaults == 1
\* executions of a task (first run plus re-runs) in SpecBatch
MaxRuns == 2
\* scheduled sweeps of the DAG in Spec
MaxSweeps == 2
\* upstream changes (marker touched, revision added or amended)
MaxChanges == 1
\* of the fragments one call of _split_by_size collects, the first MaxChunks
\* are kept
MaxChunks == 6

(* Program constants *)

\* boe_sync_consolidada.py:364  if processed_count % 10 == 0: conn.commit()
COMMIT_EVERY == 10

Writers == {1, 2}

-----------------------------------------------------------------------------
(* Python None and optional values: None is <<>>, a value v is <<v>> *)

None == <<>>

Some(v) == <<v>>

\* Python's  x or ''
OrEmpty(o) == IF o = None THEN "" ELSE o[1]

-----------------------------------------------------------------------------
(* utils/idempotency.py *)

Pad2(n) == IF n < 10 THEN "0" \o ToString(n) ELSE ToString(n)

\* datetime.date.isoformat(); a date is the integer YYYYMMDD
isoformat(d) ==
    ToString(d \div 10000) \o "-" \o Pad2((d \div 100) % 100) \o "-" \o Pad2(d % 100)

\* hashlib.sha256(s.encode('utf-8')).hexdigest(), taken as collision free:
\* the digest of s is the term sha256(s)
sha256(s) == "sha256(" \o s \o ")"

RECURSIVE JoinPipe(_)
\* '|'.join(components)
JoinPipe(components) ==
    IF Len(components) = 0 THEN ""
    ELSE IF Len(components) = 1 THEN components[1]
    ELSE components[1] \o "|" \o JoinPipe(Tail(components))

\* a digest that depends on the calls the process made before, as a salted
\* or counter-based hash would
calculate_hash_salted(content) ==
    sha256(content \o "#" \o ToString(Len(proc.calls)))

\* calculate_hash(content); content None is hashed as ""
calculate_hash(content) == sha256(content)

generate_id_version(id_norma, id_bloque, fecha_vigencia_desde, id_norma_modificadora, hash_html) ==
    sha256(JoinPipe(<<id_norma,
                      id_bloque,
                      IF fecha_vigencia_desde = None THEN ""
                      ELSE isoformat(fecha_vigencia_desde[1]),
                      OrEmpty(id_norma_modificadora),
                      hash_html>>))

\* an id that leaves the ordinal out
generate_id_without_ordinal(id_version, ordinal, hash_texto) ==
    sha256(JoinPipe(<<id_version, hash_texto>>))

generate_id_fragmento(id_version, ordinal, hash_texto) ==
    sha256(JoinPipe(<<id_version, ToString(ordinal), hash_texto>>))

-----------------------------------------------------------------------------
(* Revision documents.  A revision's markup is one of a few documents,     *)
(* named by a short string; the normaliser and the segmenter are given by  *)
(* their results on these documents.                                       *)
(*   ""    a revision without content                                      *)
(*   "h1"  a short revision without article headings: one fragment         *)
(*   "h2"  a long revision: two fragments.  No fragment carries an article *)
(*         label: text_processing.py:155 matches no segment of the split   *)

HtmlCatalog == {"", "h1", "h2"}

\* html_to_text_structured(html)
html_to_text_structured(html) ==
    CASE html = ""   -> ""
      [] html = "h1" -> "t1"
      [] html = "h2" -> "t2"

\* chunk_text_by_article_or_size(text): the list of {text, articulo_ref, ordinal}
chunk_text_by_article_or_size(text) ==
    CASE text = ""   -> <<>>
      [] text = "t1" -> <<[text |-> "t1", articulo_ref |-> None, ordinal |-> 0]>>
      [] text = "t2" -> <<[text |-> "t2a", articulo_ref |-> None, ordinal |-> 0],
                          [text |-> "t2b", articulo_ref |-> None, ordinal |-> 1]>>

-----------------------------------------------------------------------------
(* The relational store: tables, transactions, statements *)

VersionKey(r) == r.id_version

FragmentoKey(r) == r.id_fragmento

BloqueKey(r) == <<r.id_norma, r.id_bloque>>

\* the primary key of a row of a table
KeyOf(table, r) ==
    CASE table = "version"   -> VersionKey(r)
      [] table = "fragmento" -> FragmentoKey(r)
      [] table = "pending"   -> FragmentoKey(r)
      [] table = "bloque"    -> BloqueKey(r)

Keys(table, rows) == {KeyOf(table, r) : r \in rows}

\* a connection without pending writes
EmptyTx == [bloque |-> {}, version |-> {}, fragmento |-> {}, pending |-> {},
            aborted |-> FALSE]

\* the rows a transaction sees (READ COMMITTED): the committed rows, with its
\* own uncommitted writes over them
Visible(table, committed, own) ==
    {r \in committed : KeyOf(table, r) \notin Keys(table, own)} \cup own

ViewOf(w) ==
    [bloque    |-> Visible("bloque", db.bloque, tx[w].bloque),
     version   |-> Visible("version", db.version, tx[w].version),
     fragmento |-> Visible("fragmento", db.fragmento, tx[w].fragmento),
     pending   |-> Visible("pending", db.pending, tx[w].pending)]

\* a connection that commits every statement on its own
AutoCommitOn == TRUE

\* pg_hook.get_conn(): psycopg2 connections start with autocommit off
AutoCommit == FALSE

\* a commit that reconciles boe_bloque: of a norm whose blocks the
\* transaction wrote, only the blocks it wrote are kept
CommitReconciling(t) ==
    IF t.aborted THEN db
    ELSE [db EXCEPT !.bloque    = {r \in db.bloque :
                                      \A x \in t.bloque : x.id_norma # r.id_norma}
                                  \cup t.bloque,
                    !.version   = Visible("version", db.version, t.version),
                    !.fragmento = Visible("fragmento", db.fragmento, t.fragmento),
                    !.pending   = Visible("pending", db.pending, t.pending)]

\* conn.commit(): the writes become durable together; the COMMIT of an
\* aborted transaction is a ROLLBACK
CommitOf(t) ==
    IF t.aborted THEN db
    ELSE [db EXCEPT !.bloque    = Visible("bloque", db.bloque, t.bloque),
                    !.version   = Visible("version", db.version, t.version),
                    !.fragmento = Visible("fragmento", db.fragmento, t.fragmento),
                    !.pending   = Visible("pending", db.pending, t.pending)]

\* the state after writer w executed a statement that left its transaction t
Written(w, t) ==
    IF AutoCommit
    THEN db' = CommitOf(t) /\ tx' = [tx EXCEPT ![w] = EmptyTx]
    ELSE db' = db /\ tx' = [tx EXCEPT ![w] = t]

\* an INSERT waits while another transaction holds an uncommitted row with
\* the same key (inserted or locked for update)
HeldByOther(w, key, table) ==
    \E o \in Writers \ {w} :
        CASE table = "version"   -> key \in Keys("version", tx[o].version)
          [] table = "fragmento" -> key \in Keys("fragmento", tx[o].fragmento)
          [] table = "pending"   -> key \in Keys("pending", tx[o].pending)
          [] table = "bloque"    -> key \in Keys("bloque", tx[o].bloque)

\* a lookup that never finds the row
check_version_missing(rows, id_version) == FALSE

\* check_version_exists(cursor, id_version): SELECT ... WHERE id_version = %s
check_version_exists(rows, id_version) == id_version \in Keys("version", rows)

\* check_fragmento_exists(cursor, id_fragmento)
check_fragmento_exists(rows, id_fragmento) == id_fragmento \in Keys("fragmento", rows)

\* a version INSERT without ON CONFLICT clause: a row with the key makes the
\* server refuse the statement (unique_violation)
InsertVersionPlain(view, t, row) ==
    IF row.id_version \in Keys("version", view)
    THEN [t EXCEPT !.aborted = TRUE]
    ELSE [t EXCEPT !.version = @ \cup {row}]

\* a version INSERT that stores nothing
InsertVersionDropped(view, t, row) == t

\* INSERT INTO boe_version ... ON CONFLICT (id_version) DO UPDATE SET
\*   id_norma_modificadora, fecha_publicacion_mod, vigencia_hasta, hash_html,
\*   hash_texto = EXCLUDED.*        (lines 291-313; t is the transaction)
InsertVersion(view, t, row) ==
    IF row.id_version \in Keys("version", view)
    THEN LET old == CHOOSE r \in view : r.id_version = row.id_version
         IN  [t EXCEPT !.version = (@ \ {old}) \cup
                {[old EXCEPT !.id_norma_modificadora = row.id_norma_modificadora,
                             !.fecha_publicacion_mod = row.fecha_publicacion_mod,
                             !.vigencia_hasta = row.vigencia_hasta,
                             !.hash_html = row.hash_html,
                             !.hash_texto = row.hash_texto]}]
    ELSE [t EXCEPT !.version = @ \cup {row}]

\* INSERT INTO boe_fragmento ... ON CONFLICT (id_fragmento) DO NOTHING
\* (lines 337-350)
InsertFragmento(view, t, row) ==
    IF row.id_fragmento \in Keys("fragmento", view) THEN t
    ELSE [t EXCEPT !.fragmento = @ \cup {row}]

\* the marker the INSERT of lines 353-357 creates: the attempt count and
\* the last error take the values of a marker not yet tried
PendingRow(id_fragmento) ==
    [id_fragmento |-> id_fragmento, status |-> "pending", attempts |-> 0,
     last_error |-> None]

\* INSERT INTO pending_embeddings (id_fragmento, status) VALUES (%s, 'pending')
\*   ON CONFLICT (id_fragmento) DO NOTHING       (lines 353-357)
InsertPending(view, t, id_fragmento) ==
    IF id_fragmento \in Keys("pending", view) THEN t
    ELSE [t EXCEPT !.pending = @ \cup {PendingRow(id_fragmento)}]

\* INSERT INTO boe_bloque ... ON CONFLICT (id_norma, id_bloque) DO UPDATE SET
\*   ..., fecha_actualizacion_bloque = EXCLUDED.fecha_actualizacion_bloque
\* (lines 182-199)
UpsertBloque(view, t, row) ==
    [t EXCEPT !.bloque = {r \in @ : BloqueKey(r) # BloqueKey(row)} \cup {row}]

-----------------------------------------------------------------------------
(* Bookkeeping of a behaviour (history, read by the properties only)        *)
(*   faults   exceptions, error results and crashes injected so far         *)
(*   crashes  crashes among them                                            *)
(*   changes  upstream changes so far                                       *)
(*   raised   the blocks inside which an exception was injected (this sweep)*)
(*   open     the blocks processed to line 361 since the last commit        *)
(*   synced   the blocks processed and committed while no fault had         *)
(*            happened, whose upstream revisions are unchanged since        *)
(*   crashed_with_commits  a crash happened after a commit of the task      *)
(*   failed_prev  the blocks whose content sync failed in the last sweep    *)
(*   conflicted   a version INSERT met a row with its key (ON CONFLICT)     *)

InitHist == [faults |-> 0, crashes |-> 0, changes |-> 0, raised |-> {},
             open |-> {}, synced |-> {}, crashed_with_commits |-> FALSE,
             failed_prev |-> {}, conflicted |-> FALSE]

\* the history after conn.commit() of transaction t
AfterCommit(h, t) ==
    IF t.aborted THEN [h EXCEPT !.open = {}]
    ELSE [h EXCEPT !.synced = IF h.faults = 0 THEN @ \cup h.open ELSE @,
                   !.open = {}]

-----------------------------------------------------------------------------
(* sync_bloques_batch (boe_sync_consolidada.py:221-376), one step per call  *)
(* or statement.  proc[w] holds the locals of the task running as writer w. *)

BloqueRef(id_norma, id_bloque) == [id_norma |-> id_norma, id_bloque |-> id_bloque]

\* bloque_ref of the current iteration of  for bloque_ref in dirty_bloques
CurRef(p) == p.dirty_bloques[p.bi]

\* version of the current iteration of  for version in versiones
CurVersion(p) == p.versiones[p.vi]

\* line 267
CurHashHtml(p) == calculate_hash(CurVersion(p).html)

\* line 266
CurTexto(p) == html_to_text_structured(CurVersion(p).html)

\* lines 271-277
CurIdVersion(p) ==
    generate_id_version(CurRef(p).id_norma, CurRef(p).id_bloque,
                        CurVersion(p).fecha_vigencia_desde,
                        CurVersion(p).id_norma_modificadora, CurHashHtml(p))

\* the row of lines 291-313; vigencia_hasta = None (line 288)
VersionRow(id_norma, id_bloque, version) ==
    [id_version |-> generate_id_version(id_norma, id_bloque, version.fecha_vigencia_desde,
                                        version.id_norma_modificadora,
                                        calculate_hash(version.html)),
     id_norma |-> id_norma,
     id_bloque |-> id_bloque,
     id_norma_modificadora |-> version.id_norma_modificadora,
     fecha_publicacion_mod |-> version.fecha_publicacion_mod,
     fecha_vigencia_desde |-> version.fecha_vigencia_desde,
     vigencia_hasta |-> None,
     hash_html |-> calculate_hash(version.html),
     hash_texto |-> calculate_hash(html_to_text_structured(version.html))]

\* the row of lines 337-350 for one chunk of a version
FragmentoRow(id_version, chunk_data) ==
    [id_fragmento |-> generate_id_fragmento(id_version, chunk_data.ordinal,
                                            calculate_hash(chunk_data.text)),
     id_version |-> id_version,
     ordinal |-> chunk_data.ordinal,
     texto_normalizado |-> chunk_data.text,
     hash_texto |-> calculate_hash(chunk_data.text),
     articulo_ref |-> chunk_data.articulo_ref]

\* line 316
CurChunks(p) == chunk_text_by_article_or_size(CurTexto(p))

CurFragmento(p) == FragmentoRow(CurIdVersion(p), CurChunks(p)[p.ci])

\* control: the next iteration of the loop over dirty_bloques, or line 371
NextBloque(p) ==
    IF p.bi < Len(p.dirty_bloques)
    THEN [p EXCEPT !.pc = "get_bloque", !.bi = @ + 1, !.versiones = <<>>, !.vi = 0, !.ci = 0]
    ELSE [p EXCEPT !.pc = "final_commit", !.bi = 0, !.versiones = <<>>, !.vi = 0, !.ci = 0]

\* control: iteration i of the loop over versiones, or line 361
AtVersion(p, i) ==
    IF i > Len(p.versiones)
    THEN [p EXCEPT !.pc = "end_bloque", !.vi = 0, !.ci = 0]
    ELSE [p EXCEPT !.pc = "version", !.vi = i, !.ci = 0]

\* control: iteration j of the loop over chunks, or the next version
AtChunk(p, j) ==
    IF j > Len(CurChunks(p))
    THEN AtVersion(p, p.vi + 1)
    ELSE [p EXCEPT !.pc = "fragmento", !.ci = j]

\* lines 368-369: except Exception: logger.error(...); the loop goes on
ExceptBloque(p) == NextBloque([p EXCEPT !.errors = @ \cup {CurRef(p)}])

\* lines 230-247: pull the dirty blocks; nothing to do without any
StartBloques(w) ==
    /\ proc[w].task = "bloques" /\ proc[w].pc = "start"
    /\ proc' = [proc EXCEPT ![w] =
                  IF proc[w].dirty_bloques = <<>>
                  THEN [@ EXCEPT !.pc = "done", !.returned = 0, !.errors = {},
                                 !.attempted = {}, !.fetch_errors = {}]
                  ELSE [@ EXCEPT !.pc = "get_bloque", !.bi = 1, !.processed_count = 0,
                                 !.new_fragmentos_count = 0, !.errors = {},
                                 !.attempted = {}, !.fetch_errors = {},
                                 !.returned = -1]]
    /\ tx' = [tx EXCEPT ![w] = EmptyTx]
    /\ hist' = [hist EXCEPT !.open = {}]
    /\ UNCHANGED <<upstream, db>>

\* line 255, get_bloque answers with the block's revisions (client 224-258)
GetBloque(w) ==
    /\ proc[w].task = "bloques" /\ proc[w].pc = "get_bloque"
    /\ LET p == proc[w]
           key == <<CurRef(p).id_norma, CurRef(p).id_bloque>>
       IN  proc' = [proc EXCEPT ![w] =
                      AtVersion([p EXCEPT !.versiones = upstream.bloque[key],
                                          !.attempted = @ \cup {CurRef(p)}], 1)]
    /\ UNCHANGED <<upstream, db, tx, hist>>

\* line 255, get_bloque answers with an error result: versiones = [] (client
\* lines 259-303); the block then counts as processed
GetBloqueError(w) ==
    /\ proc[w].task = "bloques" /\ proc[w].pc = "get_bloque"
    /\ hist.faults < MaxFaults
    /\ LET p == proc[w]
       IN  proc' = [proc EXCEPT ![w] =
                      AtVersion([p EXCEPT !.versiones = <<>>,
                                          !.attempted = @ \cup {CurRef(p)},
                                          !.fetch_errors = @ \cup {CurRef(p)}], 1)]
    /\ hist' = [hist EXCEPT !.faults = @ + 1]
    /\ UNCHANGED <<upstream, db, tx>>

\* a check that, before it skips a version that exists, puts the markers of
\* the version's fragments back in the queue
CheckVersionRequeue(w) ==
    /\ proc[w].task = "bloques" /\ proc[w].pc = "version"
    /\ LET p == proc[w]
           found == /\ CurVersion(p).html # ""
                    /\ ~tx[w].aborted
                    /\ check_version_exists(ViewOf(w).version, CurIdVersion(p))
           again == {PendingRow(f.id_fragmento) :
                       f \in {x \in ViewOf(w).fragmento : x.id_version = CurIdVersion(p)}}
       IN  /\ proc' = [proc EXCEPT ![w] =
                         IF CurVersion(p).html = "" THEN AtVersion(p, p.vi + 1)
                         ELSE IF tx[w].aborted THEN ExceptBloque(p)
                         ELSE IF found THEN AtVersion(p, p.vi + 1)
                         ELSE [p EXCEPT !.pc = "insert_version"]]
           /\ tx' = IF found
                    THEN [tx EXCEPT ![w].pending =
                            {q \in @ : q.id_fragmento \notin Keys("pending", again)}
                            \cup again]
                    ELSE tx
    /\ UNCHANGED <<upstream, db, hist>>

\* lines 262-283: skip a version without content; compute the identity; skip
\* a version that exists.  In an aborted transaction the SELECT raises.
CheckVersion(w) ==
    /\ proc[w].task = "bloques" /\ proc[w].pc = "version"
    /\ LET p == proc[w]
       IN  proc' = [proc EXCEPT ![w] =
                      IF CurVersion(p).html = "" THEN AtVersion(p, p.vi + 1)
                      ELSE IF tx[w].aborted THEN ExceptBloque(p)
                      ELSE IF check_version_exists(ViewOf(w).version, CurIdVersion(p))
                           THEN AtVersion(p, p.vi + 1)
                           ELSE [p EXCEPT !.pc = "insert_version"]]
    /\ UNCHANGED <<upstream, db, tx, hist>>

\* the state after a statement of the current block left transaction t: a
\* statement the server refused raises into the handler of line 368
Executed(w, t, after) ==
    IF t.aborted
    THEN /\ tx' = [tx EXCEPT ![w] = t]
         /\ db' = db
         /\ proc' = [proc EXCEPT ![w] = ExceptBloque(proc[w])]
    ELSE /\ Written(w, t)
         /\ proc' = [proc EXCEPT ![w] = after]

\* lines 291-316: the version upsert, then the segmenter
WriteVersion(w) ==
    /\ proc[w].task = "bloques" /\ proc[w].pc = "insert_version"
    /\ ~HeldByOther(w, CurIdVersion(proc[w]), "version")
    /\ LET p == proc[w]
           row == VersionRow(CurRef(p).id_norma, CurRef(p).id_bloque, CurVersion(p))
       IN  /\ Executed(w, InsertVersion(ViewOf(w).version, tx[w], row), AtChunk(p, 1))
           /\ hist' = [hist EXCEPT !.conflicted =
                          @ \/ row.id_version \in Keys("version", ViewOf(w).version)]
    /\ UNCHANGED upstream

\* lines 318-334: the fragment's identity; skip a fragment that exists
CheckFragmento(w) ==
    /\ proc[w].task = "bloques" /\ proc[w].pc = "fragmento"
    /\ LET p == proc[w]
       IN  proc' = [proc EXCEPT ![w] =
                      IF check_fragmento_exists(ViewOf(w).fragmento,
                                                CurFragmento(p).id_fragmento)
                      THEN AtChunk(p, p.ci + 1)
                      ELSE [p EXCEPT !.pc = "insert_fragmento"]]
    /\ UNCHANGED <<upstream, db, tx, hist>>

\* lines 337-350
WriteFragmento(w) ==
    /\ proc[w].task = "bloques" /\ proc[w].pc = "insert_fragmento"
    /\ ~HeldByOther(w, CurFragmento(proc[w]).id_fragmento, "fragmento")
    /\ LET p == proc[w]
       IN  Executed(w, InsertFragmento(ViewOf(w).fragmento, tx[w], CurFragmento(p)),
                    [p EXCEPT !.pc = "insert_pending"])
    /\ UNCHANGED <<upstream, hist>>

\* lines 353-359
WritePending(w) ==
    /\ proc[w].task = "bloques" /\ proc[w].pc = "insert_pending"
    /\ ~HeldByOther(w, CurFragmento(proc[w]).id_fragmento, "pending")
    /\ LET p == proc[w]
       IN  Executed(w, InsertPending(ViewOf(w).pending, tx[w],
                                     CurFragmento(p).id_fragmento),
                    AtChunk([p EXCEPT !.new_fragmentos_count = @ + 1], p.ci + 1))
    /\ UNCHANGED <<upstream, hist>>

\* line 364: the checkpoint is due
CheckpointDue(processed_count) == processed_count % COMMIT_EVERY = 0

\* lines 361-366: the block is processed; commit every COMMIT_EVERY blocks
EndBloque(w) ==
    /\ proc[w].task = "bloques" /\ proc[w].pc = "end_bloque"
    /\ LET p == [proc[w] EXCEPT !.processed_count = @ + 1]
           h == [hist EXCEPT !.open = IF CurRef(p) \in p.fetch_errors THEN @
                                      ELSE @ \cup {CurRef(p)}]
       IN  /\ proc' = [proc EXCEPT ![w] = NextBloque(p)]
           /\ IF CheckpointDue(p.processed_count)
              THEN /\ db' = CommitOf(tx[w])
                   /\ tx' = [tx EXCEPT ![w] = EmptyTx]
                   /\ hist' = AfterCommit(h, tx[w])
              ELSE /\ UNCHANGED <<db, tx>>
                   /\ hist' = h
    /\ UNCHANGED upstream

\* lines 371-376
FinalCommit(w) ==
    /\ proc[w].task = "bloques" /\ proc[w].pc = "final_commit"
    /\ db' = CommitOf(tx[w])
    /\ tx' = [tx EXCEPT ![w] = EmptyTx]
    /\ proc' = [proc EXCEPT ![w] = [@ EXCEPT !.pc = "done",
                                             !.returned = proc[w].processed_count]]
    /\ hist' = AfterCommit(hist, tx[w])
    /\ UNCHANGED upstream

\* the steps of a block that run a statement on the connection
StatementPcs == {"version", "insert_version", "fragmento", "insert_fragmento",
                 "insert_pending"}

\* a step of the try body (lines 254-366) raises in the client: the handler
\* of line 368 logs it and the transaction stays as it is
RaiseInBloque(w) ==
    /\ proc[w].task = "bloques" /\ proc[w].pc \in StatementPcs
    /\ CurVersion(proc[w]).html # ""
    /\ hist.faults < MaxFaults
    /\ proc' = [proc EXCEPT ![w] = ExceptBloque(@)]
    /\ hist' = [hist EXCEPT !.faults = @ + 1, !.raised = @ \cup {CurRef(proc[w])}]
    /\ UNCHANGED <<upstream, db, tx>>

\* a statement fails in the server: the transaction is aborted, the handler
\* of line 368 logs the error and does not roll back
StatementErrorInBloque(w) ==
    /\ proc[w].task = "bloques" /\ proc[w].pc \in StatementPcs
    /\ CurVersion(proc[w]).html # ""
    /\ ~tx[w].aborted
    /\ hist.faults < MaxFaults
    /\ proc' = [proc EXCEPT ![w] = ExceptBloque(@)]
    /\ tx' = [tx EXCEPT ![w] = [@ EXCEPT !.aborted = TRUE]]
    /\ hist' = [hist EXCEPT !.faults = @ + 1, !.raised = @ \cup {CurRef(proc[w])}]
    /\ UNCHANGED <<upstream, db>>

\* the task's process dies: the server rolls the open transaction back
Crash(w) ==
    /\ proc[w].task = "bloques"
    /\ proc[w].pc \notin {"start", "done", "crashed"}
    /\ hist.faults < MaxFaults
    /\ proc' = [proc EXCEPT ![w] = [@ EXCEPT !.pc = "crashed", !.bi = 0, !.versiones = <<>>,
                                             !.vi = 0, !.ci = 0]]
    /\ tx' = [tx EXCEPT ![w] = EmptyTx]
    /\ hist' = [hist EXCEPT !.faults = @ + 1, !.crashes = @ + 1, !.open = {},
                            !.crashed_with_commits = @ \/ db.version # {}]
    /\ UNCHANGED <<upstream, db>>

\* the task runs again over the same dirty_bloques (retries: 3, or cleared)
Rerun(w) ==
    /\ proc[w].task = "bloques"
    /\ proc[w].pc \in {"done", "crashed"}
    /\ proc[w].run < MaxRuns
    /\ proc' = [proc EXCEPT ![w] = [@ EXCEPT !.pc = "start", !.run = @ + 1]]
    /\ UNCHANGED <<upstream, db, tx, hist>>

-----------------------------------------------------------------------------
(* SpecBatch: sync_bloques_batch over a list of NumBlocks dirty blocks,     *)
(* with exceptions, a crash at any step, and re-runs over the same list     *)

IdleProc ==
    [task |-> "idle", pc |-> "idle", run |-> 0, sweep |-> 0,
     id_normas |-> <<>>, ni |-> 0, indice |-> <<>>, ki |-> 0,
     dirty_bloques |-> <<>>, bi |-> 0, versiones |-> <<>>, vi |-> 0, ci |-> 0,
     processed_count |-> 0, new_fragmentos_count |-> 0, returned |-> -1,
     errors |-> {}, attempted |-> {}, fetch_errors |-> {}, handled |-> {}]

EmptyDb == [norma |-> {}, bloque |-> {}, version |-> {}, fragmento |-> {}, pending |-> {}]

\* one <version> element of a block, as _parse_bloque_xml returns it
Revision(mod, pub, desde, html) ==
    [id_norma_modificadora |-> mod, fecha_publicacion_mod |-> pub,
     fecha_vigencia_desde |-> desde, html |-> html]

BatchBloqueId(i) == "b" \o ToString(i)

\* the revisions upstream serves for block i of the batch
BatchRevisions(i) ==
    CASE i = 1 -> <<Revision(None, Some(20200101), Some(20200102), "h1"),
                    Revision(Some("M1"), Some(20210601), Some(20210701), "h2")>>
      [] i = 2 -> <<Revision(None, Some(20200101), Some(20200102), ""),
                    Revision(None, Some(20200101), None, "h2")>>
      [] OTHER -> <<Revision(None, Some(20200101), Some(20200102), "h1")>>

BatchUpstream ==
    [index  |-> <<>>,
     bloque |-> [k \in {<<"N1", BatchBloqueId(i)>> : i \in 1..NumBlocks} |->
                   BatchRevisions(CHOOSE i \in 1..NumBlocks : k[2] = BatchBloqueId(i))]]

InitBatch ==
    /\ upstream = BatchUpstream
    /\ db = EmptyDb
    /\ tx = [w \in Writers |-> EmptyTx]
    /\ proc = [w \in Writers |->
                 IF w = 1
                 THEN [IdleProc EXCEPT !.task = "bloques", !.pc = "start", !.run = 1,
                         !.dirty_bloques = [i \in 1..NumBlocks |->
                                              BloqueRef("N1", BatchBloqueId(i))]]
                 ELSE IdleProc]
    /\ hist = InitHist

NextBatch ==
    \/ StartBloques(1)
    \/ GetBloque(1)
    \/ GetBloqueError(1)
    \/ CheckVersion(1)
    \/ WriteVersion(1)
    \/ CheckFragmento(1)
    \/ WriteFragmento(1)
    \/ WritePending(1)
    \/ EndBloque(1)
    \/ FinalCommit(1)
    \/ RaiseInBloque(1)
    \/ StatementErrorInBloque(1)
    \/ Crash(1)
    \/ Rerun(1)

SpecBatch == InitBatch /\ [][NextBatch]_vars

-----------------------------------------------------------------------------
(* discover_normas and sync_indices (boe_sync_consolidada.py:39-218)        *)

Range(s) == {s[i] : i \in DOMAIN s}

\* the lists of norms list_normas may answer for the window of a sweep
NormaLists == {<<"N1">>, <<"N1", "N2">>}

\* lines 39-125: upsert the discovered norms, commit, push their ids
DiscoverNormas(w) ==
    /\ proc[w].task = "discover" /\ proc[w].pc = "start"
    /\ \E ids \in NormaLists :
         /\ db' = [db EXCEPT !.norma = @ \cup Range(ids)]
         /\ proc' = [proc EXCEPT ![w] =
                       [@ EXCEPT !.task = "indices", !.pc = "start", !.id_normas = ids,
                                 !.dirty_bloques = <<>>, !.handled = {},
                                 !.errors = {}, !.attempted = {}, !.fetch_errors = {}]]
    /\ UNCHANGED <<upstream, tx, hist>>

\* a detector that misses first-seen blocks
IsDirtyIfChanged(row, fetched) == row # None /\ row[1] # fetched

\* lines 171-179: row is cursor.fetchone(), None or the 1-tuple of the stored
\* marker; fetched is the marker of the index just fetched
IsDirty(row, fetched) ==
    IF row = None THEN TRUE
    ELSE row[1] # fetched

\* control: the next iteration of the loop over id_normas, or line 210
NextNorma(p) ==
    IF p.ni < Len(p.id_normas)
    THEN [p EXCEPT !.pc = "get_indice", !.ni = @ + 1, !.indice = <<>>, !.ki = 0]
    ELSE [p EXCEPT !.pc = "commit", !.ni = 0, !.indice = <<>>, !.ki = 0]

\* control: iteration k of the loop over the blocks of the index
AtIndexBloque(p, k) ==
    IF k > Len(p.indice) THEN NextNorma(p)
    ELSE [p EXCEPT !.pc = "bloque", !.ki = k]

\* lines 136-153: pull id_normas; without any, return [] and push nothing
IdxStart(w) ==
    /\ proc[w].task = "indices" /\ proc[w].pc = "start"
    /\ proc' = [proc EXCEPT ![w] =
                  IF proc[w].id_normas = <<>>
                  THEN [@ EXCEPT !.task = "bloques", !.pc = "start", !.run = 1,
                                 !.dirty_bloques = <<>>]
                  ELSE [@ EXCEPT !.pc = "get_indice", !.ni = 1, !.dirty_bloques = <<>>,
                                 !.handled = {}]]
    /\ tx' = [tx EXCEPT ![w] = EmptyTx]
    /\ UNCHANGED <<upstream, db, hist>>

\* line 158: get_indice answers with the blocks of the norm
GetIndice(w) ==
    /\ proc[w].task = "indices" /\ proc[w].pc = "get_indice"
    /\ LET p == proc[w]
       IN  proc' = [proc EXCEPT ![w] =
                      AtIndexBloque([p EXCEPT !.indice = upstream.index[p.id_normas[p.ni]]], 1)]
    /\ UNCHANGED <<upstream, db, tx, hist>>

\* line 158: get_indice answers with an error result: bloques = [] (client
\* lines 190-222)
GetIndiceError(w) ==
    /\ proc[w].task = "indices" /\ proc[w].pc = "get_indice"
    /\ hist.faults < MaxFaults
    /\ proc' = [proc EXCEPT ![w] = NextNorma(@)]
    /\ hist' = [hist EXCEPT !.faults = @ + 1]
    /\ UNCHANGED <<upstream, db, tx>>

\* lines 160-205: one block of the index: read the stored marker, decide
\* is_dirty, upsert the fetched marker, list the block if dirty.  In an
\* aborted transaction the SELECT raises into the handler of line 207.
SyncBloqueIndex(w) ==
    /\ proc[w].task = "indices" /\ proc[w].pc = "bloque"
    /\ LET p == proc[w]
           bloque == p.indice[p.ki]
           id_norma == p.id_normas[p.ni]
           ref == BloqueRef(id_norma, bloque.id_bloque)
           stored == {r \in ViewOf(w).bloque : BloqueKey(r) = <<id_norma, bloque.id_bloque>>}
           row == IF stored = {} THEN None
                  ELSE Some((CHOOSE r \in stored : TRUE).fecha_actualizacion_bloque)
           is_dirty == IsDirty(row, bloque.fecha_actualizacion_bloque)
       IN  IF tx[w].aborted
           THEN /\ proc' = [proc EXCEPT ![w] = NextNorma(p)]
                /\ UNCHANGED tx
           ELSE /\ tx' = [tx EXCEPT ![w] =
                            UpsertBloque(ViewOf(w).bloque, @,
                                [id_norma |-> id_norma, id_bloque |-> bloque.id_bloque,
                                 fecha_actualizacion_bloque |->
                                     bloque.fecha_actualizacion_bloque])]
                /\ proc' = [proc EXCEPT ![w] =
                              AtIndexBloque(
                                [p EXCEPT !.dirty_bloques =
                                              IF is_dirty THEN Append(@, ref) ELSE @,
                                          !.handled = @ \cup
                                              {[ref |-> ref,
                                                marker |-> bloque.fecha_actualizacion_bloque]}],
                                p.ki + 1)]
    /\ UNCHANGED <<upstream, db, hist>>

\* a step of the try body (lines 156-205) raises in the client: the handler
\* of line 207 logs it and the loop goes on with the next norm
RaiseInIndice(w) ==
    /\ proc[w].task = "indices" /\ proc[w].pc = "bloque"
    /\ hist.faults < MaxFaults
    /\ proc' = [proc EXCEPT ![w] = NextNorma(@)]
    /\ hist' = [hist EXCEPT !.faults = @ + 1]
    /\ UNCHANGED <<upstream, db, tx>>

\* a statement of lines 165-199 fails in the server: the transaction is
\* aborted, the handler of line 207 logs the error and does not roll back
StatementErrorInIndice(w) ==
    /\ proc[w].task = "indices" /\ proc[w].pc = "bloque"
    /\ ~tx[w].aborted
    /\ hist.faults < MaxFaults
    /\ proc' = [proc EXCEPT ![w] = NextNorma(@)]
    /\ tx' = [tx EXCEPT ![w] = [@ EXCEPT !.aborted = TRUE]]
    /\ hist' = [hist EXCEPT !.faults = @ + 1]
    /\ UNCHANGED <<upstream, db>>

\* lines 210-218: commit, push dirty_bloques; sync_bloques_batch is next
CommitIndices(w) ==
    /\ proc[w].task = "indices" /\ proc[w].pc = "commit"
    /\ db' = CommitOf(tx[w])
    /\ tx' = [tx EXCEPT ![w] = EmptyTx]
    /\ proc' = [proc EXCEPT ![w] = [@ EXCEPT !.task = "bloques", !.pc = "start", !.run = 1]]
    /\ UNCHANGED <<upstream, hist>>

\* lines 380-389: schedule_interval '0 2 * * *', max_active_runs = 1: the next
\* sweep starts after the last one ended, its tasks in new processes
NextSweep(w) ==
    /\ proc[w].task = "bloques" /\ proc[w].pc = "done"
    /\ proc[w].sweep < MaxSweeps
    /\ proc' = [proc EXCEPT ![w] = [IdleProc EXCEPT !.task = "discover", !.pc = "start",
                                                    !.sweep = proc[w].sweep + 1]]
    /\ hist' = [hist EXCEPT !.failed_prev = proc[w].errors \cup proc[w].fetch_errors,
                            !.raised = {}]
    /\ UNCHANGED <<upstream, db, tx>>

-----------------------------------------------------------------------------
(* Upstream: the index of a norm lists its blocks with their update marker; *)
(* a block has its revisions.  Between two sweeps upstream may touch a      *)
(* block's marker or publish a further revision of it.                      *)

IndexEntry(id_bloque, marker) ==
    [id_bloque |-> id_bloque, fecha_actualizacion_bloque |-> marker]

PipeUpstream ==
    [index  |-> [n \in {"N1", "N2"} |->
                   IF n = "N1" THEN <<IndexEntry("a1", Some("u1")), IndexEntry("a2", None)>>
                   ELSE <<IndexEntry("c1", Some("u1"))>>],
     bloque |-> [k \in {<<"N1", "a1">>, <<"N1", "a2">>, <<"N2", "c1">>} |->
                   CASE k[2] = "a1" -> <<Revision(None, Some(20200101), Some(20200102), "h2")>>
                     [] k[2] = "a2" -> <<Revision(None, Some(20200101), Some(20200102), ""),
                                         Revision(Some("M1"), Some(20210601), None, "h1")>>
                     [] k[2] = "c1" -> <<Revision(None, Some(20200101), Some(20200102), "h1")>>]]

\* an index with the marker of the blocks ids set to marker
Remarked(index, ids, marker) ==
    [i \in DOMAIN index |->
        IF index[i].id_bloque \in ids
        THEN [index[i] EXCEPT !.fecha_actualizacion_bloque = marker]
        ELSE index[i]]

\* the blocks the index of norm n lists
BloquesOf(n) == {upstream.index[n][i].id_bloque : i \in DOMAIN upstream.index[n]}

\* upstream changes the marker of some blocks of a norm and nothing else
UpstreamTouch(n, ids) ==
    /\ proc[1].task = "discover" /\ proc[1].sweep > 1
    /\ hist.changes < MaxChanges
    /\ upstream.index[n] # Remarked(upstream.index[n], ids, Some("u2"))
    /\ upstream' = [upstream EXCEPT !.index[n] = Remarked(@, ids, Some("u2"))]
    /\ hist' = [hist EXCEPT !.changes = @ + 1]
    /\ UNCHANGED <<db, tx, proc>>

\* upstream publishes a further revision of a block and changes its marker
UpstreamRevise(key) ==
    /\ proc[1].task = "discover" /\ proc[1].sweep > 1
    /\ hist.changes < MaxChanges
    /\ upstream' = [upstream EXCEPT
                      !.index[key[1]] = Remarked(@, {key[2]}, Some("u2")),
                      !.bloque[key] = Append(@, Revision(Some("M2"), Some(20220101),
                                                         Some(20220201), "h1"))]
    /\ hist' = [hist EXCEPT !.changes = @ + 1,
                            !.synced = @ \ {BloqueRef(key[1], key[2])}]
    /\ UNCHANGED <<db, tx, proc>>

-----------------------------------------------------------------------------
(* Spec: the DAG discover_normas >> sync_indices >> sync_bloques_batch over *)
(* MaxSweeps sweeps, one run at a time                                      *)

Init ==
    /\ upstream = PipeUpstream
    /\ db = EmptyDb
    /\ tx = [w \in Writers |-> EmptyTx]
    /\ proc = [w \in Writers |->
                 IF w = 1
                 THEN [IdleProc EXCEPT !.task = "discover", !.pc = "start", !.sweep = 1]
                 ELSE IdleProc]
    /\ hist = InitHist

Next ==
    \/ DiscoverNormas(1)
    \/ IdxStart(1)
    \/ GetIndice(1)
    \/ GetIndiceError(1)
    \/ SyncBloqueIndex(1)
    \/ RaiseInIndice(1)
    \/ StatementErrorInIndice(1)
    \/ CommitIndices(1)
    \/ StartBloques(1)
    \/ GetBloque(1)
    \/ GetBloqueError(1)
    \/ CheckVersion(1)
    \/ WriteVersion(1)
    \/ CheckFragmento(1)
    \/ WriteFragmento(1)
    \/ WritePending(1)
    \/ EndBloque(1)
    \/ FinalCommit(1)
    \/ RaiseInBloque(1)
    \/ NextSweep(1)
    \/ \E n \in DOMAIN upstream.index :
          \E ids \in SUBSET BloquesOf(n) : UpstreamTouch(n, ids)
    \/ \E key \in DOMAIN upstream.bloque : UpstreamRevise(key)

Spec == Init /\ [][Next]_vars

-----------------------------------------------------------------------------
(* SpecRace: two executions of sync_bloques_batch on two connections over   *)
(* the same dirty list, while upstream may amend the publication date of a  *)
(* revision (a field outside the version identity)                          *)

\* upstream corrects fecha_publicacion_mod of the first revision of a block
UpstreamAmend(key) ==
    /\ hist.changes < MaxChanges
    /\ upstream.bloque[key][1].html # ""
    /\ upstream' = [upstream EXCEPT !.bloque[key][1].fecha_publicacion_mod = Some(20200115)]
    /\ hist' = [hist EXCEPT !.changes = @ + 1]
    /\ UNCHANGED <<db, tx, proc>>

RaceDirty == <<BloqueRef("N1", "a1"), BloqueRef("N1", "a2")>>

InitRace ==
    /\ upstream = PipeUpstream
    /\ db = EmptyDb
    /\ tx = [w \in Writers |-> EmptyTx]
    /\ proc = [w \in Writers |->
                 [IdleProc EXCEPT !.task = "bloques", !.pc = "start", !.run = 1,
                                  !.dirty_bloques = RaceDirty]]
    /\ hist = InitHist

NextRace ==
    \/ \E w \in Writers : StartBloques(w)
    \/ \E w \in Writers : GetBloque(w)
    \/ \E w \in Writers : CheckVersion(w)
    \/ \E w \in Writers : WriteVersion(w)
    \/ \E w \in Writers : CheckFragmento(w)
    \/ \E w \in Writers : WriteFragmento(w)
    \/ \E w \in Writers : WritePending(w)
    \/ \E w \in Writers : EndBloque(w)
    \/ \E w \in Writers : FinalCommit(w)
    \/ \E key \in DOMAIN upstream.bloque : UpstreamAmend(key)

SpecRace == InitRace /\ [][NextRace]_vars

-----------------------------------------------------------------------------
(* The ledger one uninterrupted run produces for a block                    *)

\* the revisions of a block that carry content (lines 262-264)
Contentful(revisions) == {i \in DOMAIN revisions : revisions[i].html # ""}

RevisionsOf(ref) == upstream.bloque[<<ref.id_norma, ref.id_bloque>>]

ExpectedVersions(ref) ==
    {VersionRow(ref.id_norma, ref.id_bloque, RevisionsOf(ref)[i]) :
        i \in Contentful(RevisionsOf(ref))}

\* the fragments the segmenter yields for the document html of a version
ExpectedFragmentosOf(html, id_version) ==
    LET chunks == chunk_text_by_article_or_size(html_to_text_structured(html))
    IN  {FragmentoRow(id_version, chunks[k]) : k \in DOMAIN chunks}

ExpectedFragmentos(ref) ==
    UNION {ExpectedFragmentosOf(RevisionsOf(ref)[i].html,
                                VersionRow(ref.id_norma, ref.id_bloque,
                                           RevisionsOf(ref)[i]).id_version) :
              i \in Contentful(RevisionsOf(ref))}

PendingOf(fragmentos) ==
    {PendingRow(f.id_fragmento) : f \in fragmentos}

ExpectedOfBlock(ref) ==
    [version   |-> ExpectedVersions(ref),
     fragmento |-> ExpectedFragmentos(ref),
     pending   |-> PendingOf(ExpectedFragmentos(ref))]

\* the version, fragment and marker rows of a block in a store or transaction
RowsOfBlock(store, ref) ==
    LET versions == {v \in store.version :
                        v.id_norma = ref.id_norma /\ v.id_bloque = ref.id_bloque}
        ids == {generate_id_version(ref.id_norma, ref.id_bloque,
                                    RevisionsOf(ref)[i].fecha_vigencia_desde,
                                    RevisionsOf(ref)[i].id_norma_modificadora,
                                    calculate_hash(RevisionsOf(ref)[i].html)) :
                   i \in DOMAIN RevisionsOf(ref)} \cup Keys("version", versions)
        fragmentos == {f \in store.fragmento : f.id_version \in ids}
    IN  [version   |-> versions,
         fragmento |-> fragmentos,
         pending   |-> {q \in store.pending :
                           q.id_fragmento \in Keys("fragmento", fragmentos)}]

NoRows == [version |-> {}, fragmento |-> {}, pending |-> {}]

Ledger(store) ==
    [version |-> store.version, fragmento |-> store.fragmento, pending |-> store.pending]

ExpectedLedger(refs) ==
    [version   |-> UNION {ExpectedVersions(ref) : ref \in refs},
     fragmento |-> UNION {ExpectedFragmentos(ref) : ref \in refs},
     pending   |-> PendingOf(UNION {ExpectedFragmentos(ref) : ref \in refs})]

-----------------------------------------------------------------------------
(* Properties *)

\* C1: once a block was processed and committed, a further execution of
\* sync_bloques_batch over it with unchanged upstream revisions (the next
\* sweep lists it again because only its marker changed) writes no
\* boe_version, boe_fragmento or pending_embeddings row for it, and the
\* committed rows of the block stay those of a single run.
C1_RerunWritesNothing ==
    \A ref \in hist.synced :
        /\ RowsOfBlock(db, ref) = ExpectedOfBlock(ref)
        /\ RowsOfBlock(tx[1], ref) = NoRows

\* C1 witness: in the second sweep sync_bloques_batch has processed again,
\* to the end of the list, the dirty list of two synced blocks whose markers
\* alone were changed upstream.
C1_Witness ==
    /\ proc[1].task = "bloques" /\ proc[1].pc = "final_commit" /\ proc[1].sweep = 2
    /\ Len(proc[1].dirty_bloques) = 2
    /\ proc[1].attempted = Range(proc[1].dirty_bloques)
    /\ Range(proc[1].dirty_bloques) \subseteq hist.synced
    /\ \A h \in proc[1].handled :
          h.ref \in Range(proc[1].dirty_bloques) => h.marker = Some("u2")

\* C2: a committed boe_version row is never changed by the sync in any column
\* other than vigencia_hasta, whoever executes the version write path for its
\* identity (a later run, a retry, a concurrent writer).
C2_VersionRowsImmutable ==
    [][\A r \in db.version :
          \E r2 \in db'.version : r2 = [r EXCEPT !.vigencia_hasta = r2.vigencia_hasta]]_vars

\* C3: two writers that write the same version and fragment identities both
\* run to the end without error, and afterwards every identity of the dirty
\* list has exactly one boe_version row, exactly one boe_fragmento row and at
\* most one pending_embeddings row.
C3_ConcurrentWritersAgree ==
    /\ \A w \in Writers : proc[w].errors = {} /\ ~tx[w].aborted
    /\ (\A w \in Writers : proc[w].pc = "done") =>
          LET expected == ExpectedLedger(Range(RaceDirty))
          IN  /\ \A v \in expected.version :
                    Cardinality({r \in db.version : r.id_version = v.id_version}) = 1
              /\ \A f \in expected.fragmento :
                    /\ Cardinality({r \in db.fragmento : r.id_fragmento = f.id_fragmento}) = 1
                    /\ Cardinality({q \in db.pending : q.id_fragmento = f.id_fragmento}) <= 1

\* C3 witness: both writers are done and one of them executed its version
\* INSERT against a row the other had committed.
C3_Witness ==
    /\ \A w \in Writers : proc[w].pc = "done"
    /\ hist.conflicted

\* C4: every committed version has, committed with it, every fragment the
\* segmenter produces for its document and the pending marker of each.
C4_BlockAtomic ==
    \A v \in db.version :
        \A html \in HtmlCatalog :
            calculate_hash(html) = v.hash_html =>
                /\ ExpectedFragmentosOf(html, v.id_version) \subseteq db.fragmento
                /\ PendingOf(ExpectedFragmentosOf(html, v.id_version)) \subseteq db.pending

\* C5: in every committed state each fragment's id_version is the id of a
\* committed version and each pending marker's id_fragmento is the id of a
\* committed fragment.
C5_NoOrphans ==
    /\ \A f \in db.fragmento : f.id_version \in Keys("version", db.version)
    /\ \A q \in db.pending : q.id_fragmento \in Keys("fragmento", db.fragmento)

\* C5 witness: fragments and markers are committed in a run in which a block
\* raised an exception after its version was written.
C5_Witness ==
    /\ db.pending # {}
    /\ hist.raised # {}
    /\ \E v \in db.version :
         \A f \in db.fragmento : f.id_version # v.id_version

\* C6: at the end of a run in which exceptions were raised inside some blocks
\* (no crash, every fetch answered), every other block of the dirty list has
\* its versions, fragments and markers committed.
C6_OtherBlocksCommitted ==
    (/\ proc[1].task = "bloques" /\ proc[1].pc = "done"
     /\ hist.crashes = 0
     /\ proc[1].fetch_errors = {})
    => \A ref \in Range(proc[1].dirty_bloques) \ hist.raised :
          RowsOfBlock(db, ref) = ExpectedOfBlock(ref)

\* C7: at the end of a sweep, every block whose content sync failed in the
\* sweep before (exception, or fetch error result) and whose index was handled
\* again in this sweep was processed again by sync_bloques_batch.
C7_FailedBlockRetried ==
    (/\ proc[1].task = "bloques" /\ proc[1].pc = "done"
     /\ proc[1].sweep >= 2)
    => \A ref \in hist.failed_prev :
          ref \in {h.ref : h \in proc[1].handled} => ref \in proc[1].attempted

\* C8: a step of sync_indices that handles a block appends it to dirty_bloques
\* if and only if, before the step, no boe_bloque row exists for the block or
\* the stored marker differs from the fetched one; otherwise the list is
\* unchanged.
C8_DirtyIffNewOrChanged ==
    [][(/\ proc[1].task = "indices" /\ proc[1].pc = "bloque"
        /\ proc'[1].handled # proc[1].handled)
       => LET p == proc[1]
              bloque == p.indice[p.ki]
              id_norma == p.id_normas[p.ni]
              stored == {r \in ViewOf(1).bloque :
                            BloqueKey(r) = <<id_norma, bloque.id_bloque>>}
              expected == \/ stored = {}
                          \/ \E r \in stored : r.fecha_actualizacion_bloque #
                                                  bloque.fecha_actualizacion_bloque
          IN  proc'[1].dirty_bloques =
                 IF expected
                 THEN Append(p.dirty_bloques, BloqueRef(id_norma, bloque.id_bloque))
                 ELSE p.dirty_bloques]_vars

\* C8 witness: in the second sweep sync_indices has handled a block it flagged
\* dirty and a block it did not flag.
C8_Witness ==
    /\ proc[1].task = "indices" /\ proc[1].sweep = 2
    /\ \E h \in proc[1].handled : h.ref \in Range(proc[1].dirty_bloques)
    /\ \E h \in proc[1].handled : h.ref \notin Range(proc[1].dirty_bloques)

\* C9: once sync_indices has returned, the committed marker of every block it
\* handled equals the marker it fetched for the block.
C9_MarkerStored ==
    proc[1].task = "bloques" =>
        \A h \in proc[1].handled :
            \E r \in db.bloque :
                /\ BloqueKey(r) = <<h.ref.id_norma, h.ref.id_bloque>>
                /\ r.fecha_actualizacion_bloque = h.marker

\* C10: when a run of sync_bloques_batch ends and the only interruptions so
\* far were crashes of earlier runs over the same dirty list, the ledger
\* equals the ledger of one uninterrupted run over the list.
C10_CrashThenRerun ==
    (/\ proc[1].task = "bloques" /\ proc[1].pc = "done"
     /\ hist.faults = hist.crashes)
    => Ledger(db) = ExpectedLedger(Range(proc[1].dirty_bloques))

\* C10 witness: a run has ended after a crash that followed a checkpoint.
C10_Witness ==
    /\ proc[1].task = "bloques" /\ proc[1].pc = "done"
    /\ hist.crashes > 0 /\ hist.faults = hist.crashes
    /\ hist.crashed_with_commits

-----------------------------------------------------------------------------
(* search_historico_as_of (utils/embeddings.py:211-268) over the collection *)
(* boe_historico_all.  In SpecAsOf db holds the points of the collection    *)
(* and proc the locals of one call.                                         *)

\* the payload of a point: the version it belongs to and its interval; the
\* dates are ISO strings in the payload, whose order is the order of dates
Point(id_version, vigencia_desde, vigencia_hasta) ==
    [id_version |-> id_version, vigencia_desde |-> vigencia_desde,
     vigencia_hasta |-> vigencia_hasta]

\* the points the collection may hold for one block
PointCatalog ==
    {Point("v1", Some(20240101), Some(20240601)),
     Point("v2", Some(20240601), None),
     Point("v3", Some(20240601), Some(20240901)),
     Point("v4", Some(20240901), None)}

AsOfDates == {20231231, 20240101, 20240301, 20240601, 20240901}

\* Range(lte = x) on a payload value: a null value satisfies no range
RangeLte(value, x) == value # None /\ value[1] <= x

\* Range(gte = x) on a payload value
RangeGte(value, x) == value # None /\ value[1] >= x

\* MatchValue(value = None) on a payload value
MatchNull(value) == value = None

\* lines 237-257: must = [vigencia_desde <= as_of], should = [vigencia_hasta
\* is null, vigencia_hasta >= as_of], min_should_match = 1
FilterConditions(point, as_of_timestamp) ==
    /\ RangeLte(point.vigencia_desde, as_of_timestamp)
    /\ \/ MatchNull(point.vigencia_hasta)
       \/ RangeGte(point.vigencia_hasta, as_of_timestamp)

\* lines 259-265: the ids of the points client.search answers (the collection
\* holds no more points than limit)
search_historico_as_of(collection, as_of_date) ==
    {point.id_version : point \in {q \in collection : FilterConditions(q, as_of_date)}}

IdleSearch == [pc |-> "call", as_of_date |-> 0, result |-> {}, failed |-> FALSE]

\* lines 231-265: the call returns what the filter selects
SearchHistorico ==
    /\ proc.pc = "call"
    /\ proc' = [proc EXCEPT !.pc = "returned",
                            !.result = search_historico_as_of(db.boe_historico_all,
                                                              proc.as_of_date)]
    /\ UNCHANGED <<upstream, db, tx, hist>>

\* lines 266-268: the client raises; the error is logged and [] returned
SearchHistoricoError ==
    /\ proc.pc = "call"
    /\ proc' = [proc EXCEPT !.pc = "returned", !.result = {}, !.failed = TRUE]
    /\ UNCHANGED <<upstream, db, tx, hist>>

InitAsOf ==
    /\ upstream = <<>>
    /\ \E points \in SUBSET PointCatalog : db = [boe_historico_all |-> points]
    /\ tx = <<>>
    /\ \E d \in AsOfDates : proc = [IdleSearch EXCEPT !.as_of_date = d]
    /\ hist = InitHist

NextAsOf ==
    \/ SearchHistorico
    \/ SearchHistoricoError

SpecAsOf == InitAsOf /\ [][NextAsOf]_vars

\* C11: a call of search_historico_as_of that returns the answer of the
\* collection selects exactly the versions whose half-open interval
\* [vigencia_desde, vigencia_hasta) contains the as-of date, a missing
\* vigencia_hasta meaning open-ended.
C11_AsOfHalfOpen ==
    (proc.pc = "returned" /\ ~proc.failed) =>
        proc.result =
            {point.id_version : point \in
                {q \in db.boe_historico_all :
                    /\ q.vigencia_desde # None /\ q.vigencia_desde[1] <= proc.as_of_date
                    /\ \/ q.vigencia_hasta = None
                       \/ proc.as_of_date < q.vigencia_hasta[1]}}

-----------------------------------------------------------------------------
(* The end date of a version.  sync_bloques_batch writes vigencia_hasta =    *)
(* None (line 288) and no task of the DAG (lines 391-410) writes it again.   *)

\* line 384: the schedule has no end; the sweeps after sweep MaxSweeps are
\* not counted
RepeatSweep(w) ==
    /\ proc[w].task = "bloques" /\ proc[w].pc = "done"
    /\ proc[w].sweep = MaxSweeps
    /\ proc' = [proc EXCEPT ![w] = [IdleProc EXCEPT !.task = "discover", !.pc = "start",
                                                    !.sweep = MaxSweeps]]
    /\ hist' = [hist EXCEPT !.failed_prev = proc[w].errors \cup proc[w].fetch_errors,
                            !.raised = {}]
    /\ UNCHANGED <<upstream, db, tx>>

NextFair ==
    \/ Next
    \/ RepeatSweep(1)

\* the scheduler runs every task that is due (lines 380-410)
SpecFair == Init /\ [][NextFair]_vars /\ WF_vars(NextFair)

\* the committed versions of a block whose vigencia_hasta is unset
OpenVersions(key) ==
    {v \in db.version : /\ v.id_norma = key[1] /\ v.id_bloque = key[2]
                        /\ v.vigencia_hasta = None}

\* C12: a committed state in which a block has more than one version with
\* an unset vigencia_hasta is followed by a state in which exactly one
\* version of the block has it unset.
C12_OneOpenVersion ==
    \A key \in DOMAIN PipeUpstream.bloque :
        (Cardinality(OpenVersions(key)) > 1) ~> (Cardinality(OpenVersions(key)) = 1)

-----------------------------------------------------------------------------
(* Calls of the idempotency helpers (utils/idempotency.py:9-85).  In SpecIds *)
(* proc holds the calls a process has made: function, arguments, result.     *)
(* An argument is None or a value, as the callers may pass either.           *)

\* arguments of generate_id_version; two pairs of them hold a '|'
VersionArgs ==
    [id_norma : {None, Some(""), Some("N1"), Some("N1|a")},
     id_bloque : {Some("a1"), Some("a|a1")},
     fecha_vigencia_desde : {None, Some(20240101)},
     id_norma_modificadora : {None, Some(""), Some("M1")},
     hash_html : {Some(calculate_hash("h1")), Some(calculate_hash("h2"))}]

\* arguments of generate_id_fragmento
FragmentoArgs ==
    [id_version : {None, Some(""), Some("v1")},
     ordinal : {0, 1, 10},
     hash_texto : {None, Some(""), Some(calculate_hash("t1"))}]

\* arguments of calculate_hash
HashArgs == [content : {None, Some(""), Some("h1")}]

\* the result of the call fn(args); x or '' (lines 49-55, 78-82) and the
\* None check of lines 19-20 act on the arguments as passed
CallResult(fn, args) ==
    CASE fn = "calculate_hash" -> calculate_hash(OrEmpty(args.content))
      [] fn = "generate_id_version" ->
            generate_id_version(OrEmpty(args.id_norma), OrEmpty(args.id_bloque),
                                args.fecha_vigencia_desde, args.id_norma_modificadora,
                                OrEmpty(args.hash_html))
      [] fn = "generate_id_fragmento" ->
            generate_id_fragmento(OrEmpty(args.id_version), args.ordinal,
                                  OrEmpty(args.hash_texto))

ArgsOf(fn) ==
    CASE fn = "calculate_hash" -> HashArgs
      [] fn = "generate_id_version" -> VersionArgs
      [] fn = "generate_id_fragmento" -> FragmentoArgs

IdFunctions == {"calculate_hash", "generate_id_version", "generate_id_fragmento"}

\* a process calls fn(args) and keeps the result
CallId(fn, args) ==
    /\ proc.pc \in {"first", "second"}
    /\ proc' = [pc |-> IF proc.pc = "first" THEN "second" ELSE "done",
                calls |-> Append(proc.calls,
                                 [fn |-> fn, args |-> args, result |-> CallResult(fn, args)])]
    /\ UNCHANGED <<upstream, db, tx, hist>>

InitIds ==
    /\ upstream = <<>>
    /\ db = <<>>
    /\ tx = <<>>
    /\ proc = [pc |-> "first", calls |-> <<>>]
    /\ hist = InitHist

NextIds ==
    \E fn \in IdFunctions : \E args \in ArgsOf(fn) : CallId(fn, args)

SpecIds == InitIds /\ [][NextIds]_vars

\* the components in which the arguments of two calls of a function differ
Differing(a, b) == {f \in DOMAIN a : a[f] # b[f]}

\* the arguments with '' for None, as lines 49-55 and 78-82 read them
OrEmptyArgs(a) ==
    [f \in DOMAIN a |-> IF f = "ordinal" THEN a[f]
                        ELSE IF a[f] = None THEN Some("")
                        ELSE IF f = "fecha_vigencia_desde" THEN Some(isoformat(a[f][1]))
                        ELSE a[f]]

IdCalls == {i \in DOMAIN proc.calls : proc.calls[i].fn # "calculate_hash"}

\* C13 as stated: two calls of generate_id_version or of
\* generate_id_fragmento whose argument tuples differ in exactly one
\* component never return the same id.
C13_OneComponentChangesId ==
    \A i, j \in IdCalls :
        (/\ proc.calls[i].fn = proc.calls[j].fn
         /\ Cardinality(Differing(proc.calls[i].args, proc.calls[j].args)) = 1)
        => proc.calls[i].result # proc.calls[j].result

\* C13 amended: two calls whose argument tuples, None read as the empty
\* string, differ in exactly one component never return the same id.
C13_OneComponentChangesIdOrEmpty ==
    \A i, j \in IdCalls :
        (/\ proc.calls[i].fn = proc.calls[j].fn
         /\ Cardinality(Differing(OrEmptyArgs(proc.calls[i].args),
                                  OrEmptyArgs(proc.calls[j].args))) = 1)
        => proc.calls[i].result # proc.calls[j].result

\* C13 witness: two calls of generate_id_fragmento that differ in the
\* ordinal alone.
C13_Witness ==
    /\ Len(proc.calls) = 2
    /\ proc.calls[1].fn = "generate_id_fragmento"
    /\ proc.calls[2].fn = "generate_id_fragmento"
    /\ Differing(OrEmptyArgs(proc.calls[1].args), OrEmptyArgs(proc.calls[2].args))
         = {"ordinal"}

-----------------------------------------------------------------------------
(* utils/text_processing.py:117-236, chunk_text_by_article_or_size and      *)
(* _split_by_size, step by step.  A text is the sequence of its runs: a run *)
(* [c, n] is the character c repeated n times, neighbouring runs differ in  *)
(* c.  "a" is a letter of the body, "A" a character of a heading line       *)
(* ("Artículo 1. ..." up to the end of its line), NL the newline.           *)

NL == "\n"

Whitespace == {" ", NL, "\t"}

\* line 213
sentence_ends == {<<".", " ">>, <<".", NL>>, <<".", "\t">>, <<"?", " ">>,
                  <<"!", NL>>, <<"!", " ">>}

Run(c, n) == IF n > 0 THEN <<[c |-> c, n |-> n]>> ELSE <<>>

RECURSIVE StrLen(_)
\* len(text)
StrLen(text) == IF text = <<>> THEN 0 ELSE text[1].n + StrLen(Tail(text))

\* a + b
Concat(a, b) ==
    IF a = <<>> THEN b
    ELSE IF b = <<>> THEN a
    ELSE IF a[Len(a)].c = b[1].c
         THEN SubSeq(a, 1, Len(a) - 1) \o Run(b[1].c, a[Len(a)].n + b[1].n) \o Tail(b)
         ELSE a \o b

RECURSIVE Take(_, _)
\* text[:k]
Take(text, k) ==
    IF k <= 0 \/ text = <<>> THEN <<>>
    ELSE IF text[1].n <= k THEN <<text[1]>> \o Take(Tail(text), k - text[1].n)
    ELSE Run(text[1].c, k)

RECURSIVE Drop(_, _)
\* text[k:]
Drop(text, k) ==
    IF text = <<>> THEN <<>>
    ELSE IF k <= 0 THEN text
    ELSE IF text[1].n <= k THEN Drop(Tail(text), k - text[1].n)
    ELSE Run(text[1].c, text[1].n - k) \o Tail(text)

\* text[i:j] for 0 <= i
Slice(text, i, j) == Take(Drop(text, i), j - i)

RECURSIVE CharAt(_, _)
\* text[i] for 0 <= i < len(text)
CharAt(text, i) ==
    IF i < text[1].n THEN text[1].c ELSE CharAt(Tail(text), i - text[1].n)

RECURSIVE LStrip(_)
LStrip(text) ==
    IF text # <<>> /\ text[1].c \in Whitespace THEN LStrip(Tail(text)) ELSE text

RECURSIVE RStrip(_)
RStrip(text) ==
    IF text # <<>> /\ text[Len(text)].c \in Whitespace
    THEN RStrip(SubSeq(text, 1, Len(text) - 1))
    ELSE text

\* text.strip()
Strip(text) == RStrip(LStrip(text))

\* the runs of text before its first newline: text.split('\n')[0]
RECURSIVE FirstLine(_)
FirstLine(text) ==
    IF text = <<>> \/ text[1].c = NL THEN <<>>
    ELSE <<text[1]>> \o FirstLine(Tail(text))

\* the number of runs a heading line takes at the head of rest: [^\n]+ runs
\* to the end of the line
RECURSIVE LineRuns(_)
LineRuns(rest) ==
    IF rest = <<>> \/ rest[1].c = NL THEN 0 ELSE 1 + LineRuns(Tail(rest))

\* line 146: article_pattern matches at the head of rest: two newlines and a
\* heading line
MatchesAtHead(rest) ==
    /\ Len(rest) >= 2
    /\ rest[1].c = NL /\ rest[1].n >= 2
    /\ rest[2].c = "A"

RECURSIVE SplitFrom(_, _)
\* line 147, article_pattern.split(text): the text between the matches and,
\* for each match, its group (the heading line without the two newlines);
\* acc is the text since the last match
SplitFrom(acc, rest) ==
    IF rest = <<>> THEN <<acc>>
    ELSE IF MatchesAtHead(rest)
         THEN LET k == 1 + LineRuns(Tail(rest))
              IN  <<Concat(acc, Run(NL, rest[1].n - 2)), SubSeq(rest, 2, k)>>
                  \o SplitFrom(<<>>, SubSeq(rest, k + 1, Len(rest)))
         ELSE SplitFrom(Concat(acc, <<rest[1]>>), Tail(rest))

\* line 155, article_pattern.match(segment): a match that starts at the
\* first character of segment
PatternMatch(segment) ==
    /\ MatchesAtHead(segment)
    /\ segment[1].n = 2

Max(a, b) == IF a > b THEN a ELSE b

\* lines 217-223: for i in range(end, search_start, -1), the first i with a
\* sentence end at text[i:i+2] gives i + 2; best_break stays end otherwise
BestBreak(text, search_start, end) ==
    LET breaks == {i \in (search_start + 1)..end :
                      /\ i + 2 <= StrLen(text)
                      /\ <<CharAt(text, i), CharAt(text, i + 1)>> \in sentence_ends}
    IN  IF breaks = {} THEN end
        ELSE (CHOOSE i \in breaks : \A k \in breaks : k <= i) + 2

\* lines 210-225: end of the chunk that starts at start
SplitEnd(text, target_size, start) ==
    LET end == start + target_size
    IN  IF end < StrLen(text)
        THEN BestBreak(text, Max(start, end - 200), end)
        ELSE end

\* lines 231-234: start of the next chunk
SplitNextStart(end, overlap) ==
    IF end - overlap <= 0 THEN end ELSE end - overlap

\* an ordinal counted from one
OrdinalFromOne(chunks) == Len(chunks) + 1

\* 'ordinal': len(chunks) (lines 160, 174, 186); on the size path the index
\* of enumerate (line 196)
Ordinal(chunks) == Len(chunks)

Chunk(text, articulo_ref, ordinal) ==
    [text |-> text, articulo_ref |-> articulo_ref, ordinal |-> ordinal]

RECURSIVE AppendChunks(_, _, _)
\* lines 171-176 and 191-198: one fragment per piece, each piece stripped
AppendChunks(chunks, pieces, articulo_ref) ==
    IF pieces = <<>> THEN chunks
    ELSE AppendChunks(Append(chunks, Chunk(Strip(pieces[1]), articulo_ref, Ordinal(chunks))),
                      Tail(pieces), articulo_ref)

\* the guard of lines 157 and 182
Emittable(current_chunk) == current_chunk # <<>> /\ StrLen(current_chunk) > 100

\* the locals of a call that has not started
IdleChunker ==
    [pc |-> "call", text |-> <<>>, target_tokens |-> 0, overlap_tokens |-> 0,
     articles |-> <<>>, i |-> 0, current_chunk |-> <<>>, current_article_ref |-> None,
     chunks |-> <<>>, s_text |-> <<>>, s_start |-> 0, s_chunks |-> <<>>, s_iter |-> 0,
     caller |-> "", run |-> 1, previous |-> None]

\* control: the next iteration of the loop of line 154, or line 181
AtSegment(p, i) ==
    IF i > Len(p.articles) THEN [p EXCEPT !.pc = "last", !.i = 0]
    ELSE [p EXCEPT !.pc = "segment", !.i = i]

\* control: the call _split_by_size(text, target_chars, overlap_chars)
EnterSplit(p, text, caller) ==
    [p EXCEPT !.pc = "split", !.s_text = text, !.s_start = 0, !.s_chunks = <<>>,
              !.s_iter = 0, !.caller = caller]

\* lines 136-152 and 188-190
ChunkCall ==
    /\ proc.pc = "call"
    /\ LET articles == SplitFrom(<<>>, proc.text)
           p == [proc EXCEPT !.articles = articles, !.chunks = <<>>,
                             !.current_chunk = <<>>, !.current_article_ref = None]
       IN  proc' = IF proc.text = <<>> THEN [proc EXCEPT !.pc = "returned", !.chunks = <<>>]
                   ELSE IF Len(articles) > 1 THEN AtSegment(p, 1)
                   ELSE EnterSplit(p, proc.text, "size")
    /\ UNCHANGED <<upstream, db, tx, hist>>

\* lines 154-178: one segment of articles
SegmentStep ==
    /\ proc.pc = "segment"
    /\ LET p == proc
           segment == p.articles[p.i]
           grown == Concat(p.current_chunk, segment)
       IN  proc' =
             IF PatternMatch(segment)
             THEN AtSegment([p EXCEPT
                               !.chunks = IF Emittable(p.current_chunk)
                                          THEN Append(@, Chunk(Strip(p.current_chunk),
                                                               p.current_article_ref,
                                                               Ordinal(@)))
                                          ELSE @,
                               !.current_article_ref = Some(Strip(FirstLine(segment))),
                               !.current_chunk = segment], p.i + 1)
             ELSE IF 2 * StrLen(grown) > 3 * (p.target_tokens * 4)
                  THEN EnterSplit([p EXCEPT !.current_chunk = grown], grown, "article")
                  ELSE AtSegment([p EXCEPT !.current_chunk = grown], p.i + 1)
    /\ UNCHANGED <<upstream, db, tx, hist>>

\* lines 209-234: one iteration of the while loop of _split_by_size.  s_iter
\* is the parity of the iterations made; of the chunks of a call the model
\* keeps the first MaxChunks
SplitStep ==
    /\ proc.pc = "split"
    /\ proc.s_start < StrLen(proc.s_text)
    /\ LET end == SplitEnd(proc.s_text, proc.target_tokens * 4, proc.s_start)
           chunk == Strip(Slice(proc.s_text, proc.s_start, end))
       IN  proc' = [proc EXCEPT
                      !.s_chunks = IF chunk # <<>> /\ Len(@) < MaxChunks
                                   THEN Append(@, chunk) ELSE @,
                      !.s_start = SplitNextStart(end, proc.overlap_tokens * 4),
                      !.s_iter = 1 - @]
    /\ UNCHANGED <<upstream, db, tx, hist>>

\* line 236, return chunks, and what the caller does with them: lines
\* 171-177 on the article path, lines 191-200 on the size path
SplitReturn ==
    /\ proc.pc = "split"
    /\ proc.s_start >= StrLen(proc.s_text)
    /\ LET p == [proc EXCEPT !.s_text = <<>>, !.s_start = 0, !.s_chunks = <<>>,
                             !.s_iter = 0, !.caller = ""]
       IN  proc' =
             IF proc.caller = "article"
             THEN AtSegment([p EXCEPT
                               !.chunks = AppendChunks(@, proc.s_chunks,
                                                       proc.current_article_ref),
                               !.current_chunk = <<>>], proc.i + 1)
             ELSE [p EXCEPT !.pc = "returned",
                            !.chunks = AppendChunks(<<>>, proc.s_chunks, None)]
    /\ UNCHANGED <<upstream, db, tx, hist>>

\* lines 181-187 and 200
LastChunk ==
    /\ proc.pc = "last"
    /\ proc' = [proc EXCEPT
                  !.pc = "returned",
                  !.chunks = IF Emittable(proc.current_chunk)
                             THEN Append(@, Chunk(Strip(proc.current_chunk),
                                                  proc.current_article_ref, Ordinal(@)))
                             ELSE @]
    /\ UNCHANGED <<upstream, db, tx, hist>>

\* the caller segments the same text once more (run counts up to 2)
ChunkAgain ==
    /\ proc.pc = "returned"
    /\ proc' = [IdleChunker EXCEPT !.text = proc.text,
                                   !.target_tokens = proc.target_tokens,
                                   !.overlap_tokens = proc.overlap_tokens,
                                   !.run = 2, !.previous = Some(proc.chunks)]
    /\ UNCHANGED <<upstream, db, tx, hist>>

RECURSIVE Cat(_)
\* the text made of the given pieces
Cat(pieces) == IF pieces = <<>> THEN <<>> ELSE Concat(pieces[1], Cat(Tail(pieces)))

\* a heading line of n characters after an empty line
Heading(n) == Run(NL, 2) \o Run("A", n)

\* texts without a heading
PlainTexts ==
    {<<>>,
     Run("a", 150),
     Run("a", 450),
     Run(" ", 450),
     Cat(<<Run("a", 300), Run(".", 1), Run(" ", 1), Run("a", 300)>>),
     Cat(<<Run("a", 10), Run(" ", 600)>>)}

\* texts with headings: the text of the test (its first heading follows one
\* newline only); a preamble and three articles, one of them long; a text
\* that ends in a heading line and blank space; a short text
ArticleTexts ==
    {Cat(<<Run(NL, 1), Run("A", 27), Run(NL, 2), Run("a", 41), Heading(28), Run(NL, 2),
           Run("a", 42), Run(NL, 1), Run(" ", 8)>>),
     Cat(<<Run("a", 130), Heading(15), Run(NL, 2), Run("a", 150), Heading(16), Run(NL, 2),
           Run("a", 700), Heading(17), Run(NL, 2), Run("a", 5)>>),
     Cat(<<Run("a", 590), Heading(25), Run(NL, 1), Run(" ", 150)>>),
     Cat(<<Heading(20), Run(NL, 2), Run("a", 30)>>)}

\* texts segmented with the default target only
LongTexts ==
    {Run("a", 2500),
     Cat(<<Run("a", 10), Run(" ", 2500)>>),
     Cat(<<Run("a", 3590), Heading(25), Run(NL, 1), Run(" ", 150)>>)}

\* target_tokens: the value of the test of the size path, of the test of the
\* article path, and the default (line 119)
TargetTokens == {50, 100, 600}

InitChunk ==
    /\ upstream = <<>>
    /\ db = <<>>
    /\ tx = <<>>
    /\ \E text \in PlainTexts \cup ArticleTexts \cup LongTexts :
       \E target_tokens \in TargetTokens :
         /\ text \in LongTexts => target_tokens = 600
         /\ proc = [IdleChunker EXCEPT !.text = text, !.target_tokens = target_tokens,
                                       !.overlap_tokens = 50]
    /\ hist = InitHist

NextChunk ==
    \/ ChunkCall
    \/ SegmentStep
    \/ SplitStep
    \/ SplitReturn
    \/ LastChunk
    \/ ChunkAgain

SpecChunk == InitChunk /\ [][NextChunk]_vars

\* a running call takes its next step
SpecChunkFair == SpecChunk /\ WF_vars(NextChunk)

\* C15: when chunk_text_by_article_or_size returns, the ordinals of the
\* fragments are 0, 1, ..., n-1 in list order, on the article path and on
\* the size path, and a second call with the same text returns the same list.
C15_OrdinalsDense ==
    proc.pc = "returned" =>
        /\ \A k \in DOMAIN proc.chunks : proc.chunks[k].ordinal = k - 1
        /\ proc.previous # None => proc.chunks = proc.previous[1]

\* C15 witness: the second call returned, on the article path, for a text of
\* which a long span was cut by size and a short last span was dropped.
C15_Witness ==
    /\ proc.pc = "returned" /\ proc.run = 2
    /\ Len(proc.articles) > 1
    /\ Len(proc.chunks) > 2
    /\ proc.current_chunk # <<>> /\ ~Emittable(proc.current_chunk)

\* C16: when the text holds recognized article headings, every fragment
\* that holds the heading line of an article carries a non-null articulo_ref.
C16_ArticleRefSet ==
    (proc.pc = "returned" /\ Len(proc.articles) > 1) =>
        \A k \in DOMAIN proc.chunks :
            (\E r \in DOMAIN proc.chunks[k].text : proc.chunks[k].text[r].c = "A")
            => proc.chunks[k].articulo_ref # None

\* C17: a call with the default overlap for a text without article headings
\* that is longer than target_tokens * 4 characters returns, with more than
\* one fragment, each shorter than 2 * 1.5 * target_tokens * 4 characters.
C17_SizePathReturns ==
    (/\ proc.pc = "call"
     /\ Len(SplitFrom(<<>>, proc.text)) = 1
     /\ StrLen(proc.text) > proc.target_tokens * 4)
    ~> (/\ proc.pc = "returned"
        /\ Len(proc.chunks) > 1
        /\ \A k \in DOMAIN proc.chunks :
              StrLen(proc.chunks[k].text) < 12 * proc.target_tokens)

\* C18: no fragment chunk_text_by_article_or_size returns has an empty or
\* whitespace-only text.
C18_NoEmptyFragment ==
    proc.pc = "returned" =>
        \A k \in DOMAIN proc.chunks : Strip(proc.chunks[k].text) # <<>>

-----------------------------------------------------------------------------
\* C19: in every committed state each boe_fragmento row has a
\* pending_embeddings row with status 'pending'.
C19_FragmentHasMarker ==
    \A f \in db.fragmento :
        PendingRow(f.id_fragmento) \in db.pending

-----------------------------------------------------------------------------
(* Blocks that leave the index of their norm.  SpecStale is the DAG of Spec *)
(* with an upstream that may also drop a block from an index; the faults    *)
(* are error results of the client and a failed statement of sync_indices.  *)

\* the index without the entries of the block id_bloque
RECURSIVE WithoutBloque(_, _)
WithoutBloque(index, id_bloque) ==
    IF index = <<>> THEN <<>>
    ELSE IF index[1].id_bloque = id_bloque THEN WithoutBloque(Tail(index), id_bloque)
    ELSE <<index[1]>> \o WithoutBloque(Tail(index), id_bloque)

\* upstream stops listing a block in the index of its norm
UpstreamRemove(n, id_bloque) ==
    /\ proc[1].task = "discover" /\ proc[1].sweep > 1
    /\ hist.changes < MaxChanges
    /\ id_bloque \in BloquesOf(n)
    /\ upstream' = [upstream EXCEPT !.index[n] = WithoutBloque(@, id_bloque)]
    /\ hist' = [hist EXCEPT !.changes = @ + 1]
    /\ UNCHANGED <<db, tx, proc>>

NextStale ==
    \/ DiscoverNormas(1)
    \/ IdxStart(1)
    \/ GetIndice(1)
    \/ GetIndiceError(1)
    \/ SyncBloqueIndex(1)
    \/ StatementErrorInIndice(1)
    \/ CommitIndices(1)
    \/ StartBloques(1)
    \/ GetBloque(1)
    \/ GetBloqueError(1)
    \/ CheckVersion(1)
    \/ WriteVersion(1)
    \/ CheckFragmento(1)
    \/ WriteFragmento(1)
    \/ WritePending(1)
    \/ EndBloque(1)
    \/ FinalCommit(1)
    \/ NextSweep(1)
    \/ \E n \in DOMAIN upstream.index :
          \E ids \in SUBSET BloquesOf(n) : UpstreamTouch(n, ids)
    \/ \E key \in DOMAIN upstream.bloque : UpstreamRevise(key)
    \/ \E n \in DOMAIN upstream.index :
          \E id_bloque \in BloquesOf(n) : UpstreamRemove(n, id_bloque)

SpecStale == Init /\ [][NextStale]_vars

\* C20: no step of the DAG deletes a row: the keys of boe_norma, boe_bloque,
\* boe_version and boe_fragmento only grow, and a stored block that the
\* index of its norm no longer lists keeps its row and its marker.
C20_NothingDeleted ==
    [][/\ db.norma \subseteq db'.norma
       /\ Keys("bloque", db.bloque) \subseteq Keys("bloque", db'.bloque)
       /\ Keys("version", db.version) \subseteq Keys("version", db'.version)
       /\ Keys("fragmento", db.fragmento) \subseteq Keys("fragmento", db'.fragmento)
       /\ \A r \in db.bloque :
             r.id_bloque \notin BloquesOf(r.id_norma) => r \in db'.bloque]_vars

\* C20 witness: the second sweep has synced the index of a norm that no
\* longer lists a stored block, and is done.
C20_Witness ==
    /\ proc[1].task = "bloques" /\ proc[1].pc = "done" /\ proc[1].sweep = 2
    /\ \E r \in db.bloque :
          /\ r.id_bloque \notin BloquesOf(r.id_norma)
          /\ \E h \in proc[1].handled : h.ref.id_norma = r.id_norma

-----------------------------------------------------------------------------
(* html_to_text_structured (utils/text_processing.py:12-61) step by step.   *)
(* In SpecHtml proc holds the locals of one call.  A parse tree is a        *)
(* sequence of nodes; a string of the tree is a sequence of lines and a     *)
(* line a sequence of words.                                                *)

\* a NavigableString of the tree
Text(lines) == [tag |-> "#text", src |-> "", lines |-> lines, children |-> <<>>]

\* a Tag of the tree with its contents
Tag(tag, children) == [tag |-> tag, src |-> "", lines |-> <<>>, children |-> children]

\* an img tag with its src attribute
ImgTag(src) == [tag |-> "img", src |-> src, lines |-> <<>>, children |-> <<>>]

RECURSIVE Flatten(_)
Flatten(seqs) ==
    IF Len(seqs) = 0 THEN <<>> ELSE Head(seqs) \o Flatten(Tail(seqs))

RECURSIVE AllStrings(_)
\* the strings below the nodes, in document order
AllStrings(nodes) ==
    IF Len(nodes) = 0 THEN <<>>
    ELSE LET n == Head(nodes)
         IN  (IF n.tag = "#text" THEN <<n.lines>> ELSE AllStrings(n.children))
             \o AllStrings(Tail(nodes))

RECURSIVE FindAll(_, _)
\* find_all(tags): the tags below the nodes, in document order
FindAll(nodes, tags) ==
    IF Len(nodes) = 0 THEN <<>>
    ELSE LET n == Head(nodes)
         IN  (IF n.tag \in tags THEN <<n>> ELSE <<>>)
             \o FindAll(n.children, tags) \o FindAll(Tail(nodes), tags)

\* the nodes of a sequence that satisfy keep, in order
SelectNodes(nodes, keep) ==
    LET idx == {k \in DOMAIN nodes : keep[k]}
        RECURSIVE Pick(_, _)
        Pick(k, acc) == IF k > Len(nodes) THEN acc
                        ELSE Pick(k + 1, IF k \in idx THEN Append(acc, nodes[k]) ELSE acc)
    IN  Pick(1, <<>>)

RECURSIVE DecomposeTags(_, _)
\* lines 32-33: decompose every tag of the given names
DecomposeTags(nodes, tags) ==
    LET kept == SelectNodes(nodes, [k \in DOMAIN nodes |-> nodes[k].tag \notin tags])
    IN  [k \in DOMAIN kept |-> [kept[k] EXCEPT !.children = DecomposeTags(@, tags)]]

\* line 38: 'base64' in src or 'data:image' in src
Base64Srcs == {"data:image/png;base64,iVBOR"}

RECURSIVE DecomposeImages(_)
\* lines 36-39: decompose the images with embedded data
DecomposeImages(nodes) ==
    LET kept == SelectNodes(nodes, [k \in DOMAIN nodes |->
                    ~(nodes[k].tag = "img" /\ nodes[k].src \in Base64Srcs)])
    IN  [k \in DOMAIN kept |-> [kept[k] EXCEPT !.children = DecomposeImages(@)]]

\* line 67: the words article_pattern finds
ArticleWords == {"Articulo 5", "Art. 5"}

\* line 69: a string in which article_pattern.search succeeds
MatchesArticle(node) ==
    /\ node.tag = "#text"
    /\ \E i \in DOMAIN node.lines : \E j \in DOMAIN node.lines[i] :
          node.lines[i][j] \in ArticleWords

RECURSIVE process_articles(_)
\* lines 64-71: elem.parent.string = ... puts the string in the place of all
\* the contents of the parent; a string whose parent was cleared before has
\* no parent and is skipped.  The top of the tree is a parent as every tag is
process_articles(nodes) ==
    IF \E k \in DOMAIN nodes : MatchesArticle(nodes[k])
    THEN LET k == CHOOSE k \in DOMAIN nodes :
                     /\ MatchesArticle(nodes[k])
                     /\ \A m \in 1..(k - 1) : ~MatchesArticle(nodes[m])
         IN  <<Text(nodes[k].lines)>>
    ELSE [k \in DOMAIN nodes |-> [nodes[k] EXCEPT !.children = process_articles(@)]]

\* a + b of two strings: the last line of a goes on in the first line of b
StrCat(a, b) ==
    IF Len(a) = 0 THEN b
    ELSE IF Len(b) = 0 THEN a
    ELSE SubSeq(a, 1, Len(a) - 1) \o <<a[Len(a)] \o b[1]>> \o Tail(b)

RECURSIVE JoinStrings(_)
\* ''.join(strings)
JoinStrings(strings) ==
    IF Len(strings) = 0 THEN <<>> ELSE StrCat(Head(strings), JoinStrings(Tail(strings)))

\* get_text(strip = True): the stripped strings below a tag, joined by ''
StrippedText(tag) == JoinStrings(AllStrings(tag.children))

\* line 84: "| " + ' | '.join(cells) + " |"
RowLine(cells) ==
    StrCat(<<<<"|">>>>,
           JoinStrings([k \in DOMAIN cells |-> StrCat(StrippedText(cells[k]), <<<<"|">>>>)]))

RECURSIVE Dashes(_)
Dashes(n) == IF n = 0 THEN "" ELSE "---|" \o Dashes(n - 1)

\* line 89: '|' + '---|' * len(cells)
Separator(n) == <<"|" \o Dashes(n)>>

\* lines 77-90: the lines of one table
MarkdownTable(table) ==
    LET rows == FindAll(table.children, {"tr"})
    IN  Flatten([i \in DOMAIN rows |->
            LET cells == FindAll(rows[i].children, {"th", "td"})
            IN  IF Len(cells) = 0 THEN <<>>
                ELSE RowLine(cells)
                     \o (IF i = 1 /\ Len(FindAll(rows[i].children, {"th"})) > 0
                         THEN <<Separator(Len(cells))>> ELSE <<>>)])

RECURSIVE process_tables(_)
\* lines 74-93: a table with cells gives way to the string of its lines
process_tables(nodes) ==
    [k \in DOMAIN nodes |->
        IF nodes[k].tag = "table" /\ Len(MarkdownTable(nodes[k])) > 0
        THEN Text(MarkdownTable(nodes[k]))
        ELSE [nodes[k] EXCEPT !.children = process_tables(@)]]

\* the character U+2022 of line 113
Bullet == "*"

\* lines 99-104, 109-114: the lines of one list
ListText(list) ==
    LET items == SelectNodes(list.children,
                             [k \in DOMAIN list.children |-> list.children[k].tag = "li"])
    IN  Flatten([i \in DOMAIN items |->
            StrCat(<<<<IF list.tag = "ol" THEN ToString(i) \o "." ELSE Bullet>>>>,
                   StrippedText(items[i]))])

RECURSIVE ReplaceLists(_, _)
\* one loop of _process_lists: a list with items gives way to its lines
ReplaceLists(nodes, tag) ==
    [k \in DOMAIN nodes |->
        IF nodes[k].tag = tag /\ Len(ListText(nodes[k])) > 0
        THEN Text(ListText(nodes[k]))
        ELSE [nodes[k] EXCEPT !.children = ReplaceLists(@, tag)]]

\* lines 96-116
process_lists(nodes) == ReplaceLists(ReplaceLists(nodes, "ol"), "ul")

\* lines 48-53: get_text('\n'), the lines stripped, the empty ones dropped
StructuredText(soup) == Flatten(AllStrings(soup))

\* line 61: get_text(' ') of a new parse, neither stripped nor split; whether the strings of script and
\* style tags count depends on the version of the library
NaiveText(markup, with_scripts) ==
    LET soup == IF with_scripts THEN markup
                ELSE DecomposeTags(markup, {"script", "style"})
    IN  JoinStrings(AllStrings(soup))

\* the input of a call: the tree html.parser builds for the markup, or the
\* fact that the parser refuses it (ParserRejectedMarkup, as for a marked
\* section that begins "<![" and names no known keyword)
Html(markup, rejected) == [markup |-> markup, rejected |-> rejected]

Word(w) == Text(<<<<w>>>>)

Paragraph == Tag("p", <<Word("Content")>>)

ScriptTag == Tag("script", <<Word("alert")>>)

StyleTag == Tag("style", <<Word(".test")>>)

\* the table of test_html_to_text_tables
PlainTable ==
    Tag("table", <<Tag("tr", <<Tag("th", <<Word("Columna 1")>>),
                               Tag("th", <<Word("Columna 2")>>)>>),
                   Tag("tr", <<Tag("td", <<Word("Valor 1")>>),
                               Tag("td", <<Word("Valor 2")>>)>>)>>)

\* <table><tr><td>Art. 5 <b>bis</b></td><td>Valor 2</td></tr></table>
ArticleTable ==
    Tag("table", <<Tag("tr", <<Tag("td", <<Word("Art. 5"), Tag("b", <<Word("bis")>>)>>),
                               Tag("td", <<Word("Valor 2")>>)>>)>>)

\* the heading of test_html_to_text_articles
HeadingTag == Tag("h2", <<Text(<<<<"Articulo 5", "Definiciones">>>>)>>)

OrderedList == Tag("ol", <<Tag("li", <<Word("uno")>>), Tag("li", <<Word("dos")>>)>>)

BulletList == Tag("ul", <<Tag("li", <<Word("uno")>>), Tag("li", <<OrderedList>>)>>)

HtmlPieces ==
    {Paragraph, ScriptTag, StyleTag, PlainTable, ArticleTable, HeadingTag,
     OrderedList, BulletList, ImgTag("data:image/png;base64,iVBOR"),
     ImgTag("logo.png"), Word("Articulo 5"), Text(<<>>)}

\* the markups of the model: up to two pieces, and script, style, a table
\* and one further piece
Markups ==
    {<<>>}
    \cup {<<a>> : a \in HtmlPieces}
    \cup {<<a, b>> : a \in HtmlPieces, b \in HtmlPieces}
    \cup {<<ScriptTag, a, StyleTag, t>> : a \in HtmlPieces, t \in {PlainTable, ArticleTable}}

HtmlInputs ==
    {Html(m, FALSE) : m \in Markups}
    \cup {Html(<<Paragraph>>, TRUE), Html(<<ScriptTag, PlainTable>>, TRUE)}

IdleHtml ==
    [pc |-> "call", html |-> Html(<<>>, FALSE), soup |-> <<>>, text |-> <<>>,
     fallback |-> FALSE]

\* lines 26-27
HtmlCall ==
    /\ proc.pc = "call"
    /\ proc' = [proc EXCEPT !.pc = IF proc.html = Html(<<>>, FALSE)
                                   THEN "returned" ELSE "parse"]
    /\ UNCHANGED <<upstream, db, tx, hist>>

\* line 30
ParseHtml ==
    /\ proc.pc = "parse"
    /\ proc' = IF proc.html.rejected
               THEN [proc EXCEPT !.pc = "except"]
               ELSE [proc EXCEPT !.pc = "scripts", !.soup = proc.html.markup]
    /\ UNCHANGED <<upstream, db, tx, hist>>

\* lines 32-34
RemoveScripts ==
    /\ proc.pc = "scripts"
    /\ proc' = [proc EXCEPT !.pc = "images",
                            !.soup = DecomposeTags(@, {"script", "style"})]
    /\ UNCHANGED <<upstream, db, tx, hist>>

\* lines 36-40
RemoveImages ==
    /\ proc.pc = "images"
    /\ proc' = [proc EXCEPT !.pc = "articles", !.soup = DecomposeImages(@)]
    /\ UNCHANGED <<upstream, db, tx, hist>>

\* line 43
ProcessArticles ==
    /\ proc.pc = "articles"
    /\ proc' = [proc EXCEPT !.pc = "tables", !.soup = process_articles(@)]
    /\ UNCHANGED <<upstream, db, tx, hist>>

\* line 44
ProcessTables ==
    /\ proc.pc = "tables"
    /\ proc' = [proc EXCEPT !.pc = "lists", !.soup = process_tables(@)]
    /\ UNCHANGED <<upstream, db, tx, hist>>

\* line 45
ProcessLists ==
    /\ proc.pc = "lists"
    /\ proc' = [proc EXCEPT !.pc = "extract", !.soup = process_lists(@)]
    /\ UNCHANGED <<upstream, db, tx, hist>>

\* lines 48-55
ExtractText ==
    /\ proc.pc = "extract"
    /\ proc' = [proc EXCEPT !.pc = "returned", !.text = StructuredText(proc.soup)]
    /\ UNCHANGED <<upstream, db, tx, hist>>

\* line 57: a statement of lines 32-53 raises (for one, RecursionError in a
\* tree nested deeper than the interpreter's limit)
StepRaises ==
    /\ proc.pc \in {"scripts", "images", "articles", "tables", "lists", "extract"}
    /\ proc' = [proc EXCEPT !.pc = "except"]
    /\ UNCHANGED <<upstream, db, tx, hist>>

\* lines 58-61: the handler parses the same markup once more; what the parser
\* refused it refuses again, and the exception leaves the function
Fallback ==
    /\ proc.pc = "except"
    /\ \E with_scripts \in BOOLEAN :
          proc' = IF proc.html.rejected
                  THEN [proc EXCEPT !.pc = "raised"]
                  ELSE [proc EXCEPT !.pc = "returned", !.fallback = TRUE,
                                    !.text = NaiveText(proc.html.markup, with_scripts)]
    /\ UNCHANGED <<upstream, db, tx, hist>>

InitHtml ==
    /\ upstream = <<>>
    /\ db = <<>>
    /\ tx = <<>>
    /\ \E html \in HtmlInputs : proc = [IdleHtml EXCEPT !.html = html]
    /\ hist = InitHist

NextHtml ==
    \/ HtmlCall
    \/ ParseHtml
    \/ RemoveScripts
    \/ RemoveImages
    \/ ProcessArticles
    \/ ProcessTables
    \/ ProcessLists
    \/ ExtractText
    \/ StepRaises
    \/ Fallback

SpecHtml == InitHtml /\ [][NextHtml]_vars

\* C21: no call of html_to_text_structured ends with an exception: when the
\* conversion fails, the parse included, the call returns the naive text.
C21_NeverRaises ==
    /\ proc.pc # "raised"
    /\ (proc.pc = "returned" /\ proc.fallback) =>
          \E with_scripts \in BOOLEAN :
             proc.text = NaiveText(proc.html.markup, with_scripts)

\* the words of the script and style tags of a markup
NoiseWords(markup) ==
    LET strings == JoinStrings(JoinStrings(AllStrings(FindAll(markup, {"script", "style"}))))
    IN  {strings[k] : k \in DOMAIN strings}

\* the rows with cells of the tables of a markup
CellRows(markup) ==
    LET rows == FindAll(FindAll(markup, {"table"}), {"tr"})
    IN  {rows[k] : k \in {j \in DOMAIN rows :
                            Len(FindAll(rows[j].children, {"th", "td"})) > 0}}

\* C22: the text the structured conversion returns for a markup with script
\* tags, style tags and a table has, for every row of the table, the line of
\* the texts of its cells between pipes, and has no word of a script or
\* style tag.
C22_TablesKeptScriptsDropped ==
    (/\ proc.pc = "returned" /\ ~proc.fallback
     /\ Len(FindAll(proc.html.markup, {"script"})) > 0
     /\ Len(FindAll(proc.html.markup, {"style"})) > 0
     /\ Len(FindAll(proc.html.markup, {"table"})) > 0)
    => /\ \A row \in CellRows(proc.html.markup) :
             LET line == RowLine(FindAll(row.children, {"th", "td"}))
             IN  \E k \in DOMAIN proc.text :
                    /\ k + Len(line) - 1 <= Len(proc.text)
                    /\ SubSeq(proc.text, k, k + Len(line) - 1) = line
       /\ \A k \in DOMAIN proc.text : \A j \in DOMAIN proc.text[k] :
             proc.text[k][j] \notin NoiseWords(proc.html.markup)
-----------------------------------------------------------------------------
(* POST /query (rag-api/app/main.py:125-278).  In SpecQuery upstream is the *)
(* state of the services the handler would call, db the fragments the       *)
(* vector index holds for the question, proc the request being served.      *)

\* the names rag-api/app/embeddings.py defines (lines 18, 23, 46)
app_embeddings == {"get_qdrant_client", "generate_embedding", "search_vectors"}

\* main.py:140: the names the handler imports from .embeddings
ImportedNames == {"generate_embedding", "search_vigente", "search_historico"}

\* main.py:30-36: the body of a request
QueryRequest(mode, as_of_date, max_results) ==
    [mode |-> mode, as_of_date |-> as_of_date, max_results |-> max_results]

QueryModes == {"vigente", "historico", "actual"}

QueryDates == {None, Some(""), Some("2024-06-01"), Some("01/06/2024")}

\* values of max_results around the ends of Field(ge = 1, le = 20)
MaxResultsValues == {0, 1, 5, 20, 21}

\* main.py:33: the constraint of the request model
BodyValid(request) == request.max_results >= 1 /\ request.max_results <= 20

Response(status, detail) == [status |-> status, detail |-> detail]

IdleQuery ==
    [pc |-> "received", request |-> QueryRequest("vigente", None, 5),
     response |-> None, calls |-> {}]

\* main.py:125-126: the framework checks the body against QueryRequest and
\* answers 422 itself when it does not fit
ReceiveQuery ==
    /\ proc.pc = "received"
    /\ proc' = IF BodyValid(proc.request)
               THEN [proc EXCEPT !.pc = "handler"]
               ELSE [proc EXCEPT !.pc = "done",
                                 !.response = Some(Response(422, "validation error"))]
    /\ UNCHANGED <<upstream, db, tx, hist>>

\* main.py:139-142: the import statement is the first of the handler and
\* stands before the try; a name the module lacks raises ImportError, which
\* no handler catches, and the server answers 500.  The statements from
\* line 142 on run only after the import
ImportSearch ==
    /\ proc.pc = "handler"
    /\ proc' = IF ImportedNames \subseteq app_embeddings
               THEN [proc EXCEPT !.pc = "validate"]
               ELSE [proc EXCEPT !.pc = "done",
                                 !.response = Some(Response(500, "Internal Server Error"))]
    /\ UNCHANGED <<upstream, db, tx, hist>>

InitQuery ==
    /\ \E qdrant \in {"up", "down"} : upstream = [qdrant |-> qdrant]
    /\ \E points \in SUBSET {"f1", "f2"} : db = [matching |-> points]
    /\ tx = <<>>
    /\ \E mode \in QueryModes, d \in QueryDates, n \in MaxResultsValues :
          proc = [IdleQuery EXCEPT !.request = QueryRequest(mode, d, n)]
    /\ hist = InitHist

NextQuery ==
    \/ ReceiveQuery
    \/ ImportSearch

SpecQuery == InitQuery /\ [][NextQuery]_vars

\* C23: a well-formed query for which the index holds no fragment is
\* answered 200 with the no-result answer and no sources, and the no-result
\* answer is given only when the index is reachable and holds no fragment
\* for the query.
C23_NoResultIsNotAnError ==
    (/\ proc.pc = "done"
     /\ BodyValid(proc.request)
     /\ \/ proc.request.mode = "vigente"
        \/ proc.request.mode = "historico" /\ proc.request.as_of_date = Some("2024-06-01"))
    => /\ (upstream.qdrant = "up" /\ db.matching = {})
             => proc.response = Some(Response(200, "No consta en el contexto proporcionado."))
       /\ proc.response = Some(Response(200, "No consta en el contexto proporcionado."))
             => (upstream.qdrant = "up" /\ db.matching = {})

\* C24: a request whose mode is neither 'vigente' nor 'historico', or whose
\* mode is 'historico' with as_of_date missing or not a YYYY-MM-DD date, is
\* answered 400 with no embedding, search or database call made.
C24_BadRequestIs400 ==
    (/\ proc.pc = "done"
     /\ BodyValid(proc.request)
     /\ \/ proc.request.mode \notin {"vigente", "historico"}
        \/ /\ proc.request.mode = "historico"
           /\ proc.request.as_of_date # Some("2024-06-01"))
    => /\ proc.response # None
       /\ proc.response[1].status = 400
       /\ proc.calls = {}
-----------------------------------------------------------------------------
(* scripts/sync_historical_monthly.py: sync_monthly_range and the DAG runs  *)
(* it triggers through the Airflow API.  In SpecMonthly upstream holds the  *)
(* DAG runs Airflow knows, proc the locals of the script and hist what the  *)
(* script has sent.  Dates are the numbers YYYYMMDD, at midnight as main    *)
(* builds them.                                                             *)

Year(d) == d \div 10000

Month(d) == (d \div 100) % 100

Day(d) == d % 100

MakeDate(y, mo, d) == y * 10000 + mo * 100 + d

\* the days of a month of the calendar
DaysIn(y, mo) ==
    IF mo \in {4, 6, 9, 11} THEN 30
    ELSE IF mo # 2 THEN 31
    ELSE IF (y % 4 = 0 /\ y % 100 # 0) \/ y % 400 = 0 THEN 29
    ELSE 28

\* lines 160-161: d.replace(day = 1)
ReplaceDay1(d) == MakeDate(Year(d), Month(d), 1)

\* d + relativedelta(months = 1): the day is kept unless the month is shorter
PlusMonth(d) ==
    LET y  == IF Month(d) = 12 THEN Year(d) + 1 ELSE Year(d)
        mo == IF Month(d) = 12 THEN 1 ELSE Month(d) + 1
    IN  MakeDate(y, mo, IF Day(d) > DaysIn(y, mo) THEN DaysIn(y, mo) ELSE Day(d))

\* d - timedelta(days = 1)
MinusDay(d) ==
    IF Day(d) > 1 THEN d - 1
    ELSE IF Month(d) > 1 THEN MakeDate(Year(d), Month(d) - 1, DaysIn(Year(d), Month(d) - 1))
    ELSE MakeDate(Year(d) - 1, 12, 31)

MonthPeriodUnclamped(current, end_date) ==
    [from_date |-> current, to_date |-> MinusDay(PlusMonth(current))]

\* lines 173-178: the period of the month that begins at current
MonthPeriod(current, end_date) ==
    LET month_end == MinusDay(PlusMonth(current))
    IN  [from_date |-> current,
         to_date |-> IF month_end > end_date THEN end_date ELSE month_end]

IsFinalOrRunning(state) == state \in {"success", "failed", "running"}

\* line 104: the states in which a DAG run is over
IsFinal(state) == state \in {"success", "failed"}

\* lines 163-169
NoResults == [total |-> 0, success |-> 0, failed |-> 0, failed_periods |-> <<>>]

IdleScript ==
    [pc |-> "loop", start_date |-> 0, end_date |-> 0, current |-> 0, end |-> 0,
     wait |-> TRUE, results |-> NoResults, period |-> None, dag_run_id |-> None,
     polled |-> FALSE]

\* lines 196-208: the result of sync_period is counted and the loop goes on
\* to the next month
PeriodDone(p, success) ==
    [p EXCEPT !.pc = "loop",
              !.results = IF success
                          THEN [@ EXCEPT !.success = @ + 1]
                          ELSE [@ EXCEPT !.failed = @ + 1,
                                         !.failed_periods = Append(@, p.period[1])],
              !.current = PlusMonth(p.current),
              !.period = None, !.dag_run_id = None, !.polled = FALSE]

\* lines 171-194: the loop begins the next month and calls sync_period
MonthBegins ==
    /\ proc.pc = "loop"
    /\ proc.current <= proc.end
    /\ proc' = [proc EXCEPT !.pc = "trigger",
                            !.period = Some(MonthPeriod(proc.current, proc.end_date)),
                            !.results = [@ EXCEPT !.total = @ + 1]]
    /\ UNCHANGED <<upstream, db, tx, hist>>

\* lines 171, 210
SyncReturns ==
    /\ proc.pc = "loop"
    /\ proc.current > proc.end
    /\ proc' = [proc EXCEPT !.pc = "done"]
    /\ UNCHANGED <<upstream, db, tx, hist>>

\* a DAG run Airflow creates for a POST of lines 55-67
NewRun(period) == [state |-> "queued", conf |-> period]

\* lines 66-71, 130-144: the POST is answered with the id of the new run
TriggerAnswered ==
    /\ proc.pc = "trigger"
    /\ upstream' = [upstream EXCEPT !.runs = Append(@, NewRun(proc.period[1]))]
    /\ hist' = [hist EXCEPT !.sent = Append(@, proc.period[1])]
    /\ proc' = IF proc.wait
               THEN [proc EXCEPT !.pc = "wait",
                                 !.dag_run_id = Some(Len(upstream.runs) + 1)]
               ELSE PeriodDone(proc, TRUE)
    /\ UNCHANGED <<db, tx>>

\* lines 136-139: the answer carries no dag_run_id
TriggerAnsweredWithoutId ==
    /\ proc.pc = "trigger"
    /\ upstream' = [upstream EXCEPT !.runs = Append(@, NewRun(proc.period[1]))]
    /\ hist' = [hist EXCEPT !.sent = Append(@, proc.period[1]),
                            !.unwatched = @ \cup {Len(upstream.runs) + 1}]
    /\ proc' = PeriodDone(proc, ~proc.wait)
    /\ UNCHANGED <<db, tx>>

\* lines 72-74, 132-133: the POST raises RequestException, before or after
\* Airflow has created the run
TriggerFails(created) ==
    /\ proc.pc = "trigger"
    /\ upstream' = IF created
                   THEN [upstream EXCEPT !.runs = Append(@, NewRun(proc.period[1]))]
                   ELSE upstream
    /\ hist' = [hist EXCEPT !.sent = Append(@, proc.period[1]),
                            !.unwatched = IF created THEN @ \cup {Len(upstream.runs) + 1}
                                          ELSE @]
    /\ proc' = PeriodDone(proc, FALSE)
    /\ UNCHANGED <<db, tx>>

\* lines 98-112: the run is not over; the script sleeps poll_interval
PollPending ==
    /\ proc.pc = "wait"
    /\ ~IsFinal(upstream.runs[proc.dag_run_id[1]].state)
    /\ proc' = [proc EXCEPT !.polled = TRUE]
    /\ UNCHANGED <<upstream, db, tx, hist>>

\* lines 114-116: the GET raises RequestException; the script sleeps
PollFails ==
    /\ proc.pc = "wait"
    /\ proc' = [proc EXCEPT !.polled = TRUE]
    /\ UNCHANGED <<upstream, db, tx, hist>>

\* lines 104-107, 141-142: the run is over
PollFinal ==
    /\ proc.pc = "wait"
    /\ IsFinal(upstream.runs[proc.dag_run_id[1]].state)
    /\ proc' = PeriodDone(proc, upstream.runs[proc.dag_run_id[1]].state = "success")
    /\ UNCHANGED <<upstream, db, tx, hist>>

\* lines 94-96: more than timeout seconds have gone by since the wait began.
\* The requests of the loop have no time limit, so this can be the case
\* after any poll
WaitTimesOut ==
    /\ proc.pc = "wait"
    /\ proc.polled
    /\ hist' = [hist EXCEPT !.unwatched = @ \cup {proc.dag_run_id[1]}]
    /\ proc' = PeriodDone(proc, FALSE)
    /\ UNCHANGED <<upstream, db, tx>>

\* boe_sync_consolidada.py:386: max_active_runs = 1, a queued run starts when
\* no other run of the DAG is running
RunStarts(id) ==
    /\ id \in DOMAIN upstream.runs
    /\ upstream.runs[id].state = "queued"
    /\ \A other \in DOMAIN upstream.runs : upstream.runs[other].state # "running"
    /\ upstream' = [upstream EXCEPT !.runs[id].state = "running"]
    /\ UNCHANGED <<db, tx, proc, hist>>

\* the tasks of a running DAG run are over
RunEnds(id, state) ==
    /\ id \in DOMAIN upstream.runs
    /\ upstream.runs[id].state = "running"
    /\ upstream' = [upstream EXCEPT !.runs[id].state = state]
    /\ UNCHANGED <<db, tx, proc, hist>>

\* lines 250-259: the first days of the months --start may name
StartDates == {20231201, 20240101, 20240201, 20240301}

\* lines 250-259: the last days of the months --end may name, and a day
\* inside a month
EndDates == {20231231, 20240131, 20240229, 20240215}

\* the runs one call of the script may create
RunIds == 1..4

InitMonthly ==
    /\ upstream = [runs |-> <<>>]
    /\ db = <<>>
    /\ tx = <<>>
    /\ \E s \in StartDates, e \in EndDates, w \in BOOLEAN :
          proc = [IdleScript EXCEPT !.start_date = s, !.end_date = e, !.wait = w,
                                    !.current = ReplaceDay1(s), !.end = ReplaceDay1(e)]
    /\ hist = [sent |-> <<>>, unwatched |-> {}]

NextMonthly ==
    \/ MonthBegins
    \/ SyncReturns
    \/ TriggerAnswered
    \/ TriggerAnsweredWithoutId
    \/ \E created \in BOOLEAN : TriggerFails(created)
    \/ PollPending
    \/ PollFails
    \/ PollFinal
    \/ WaitTimesOut
    \/ \E id \in RunIds : RunStarts(id)
    \/ \E id \in RunIds, state \in {"success", "failed"} : RunEnds(id, state)

SpecMonthly == InitMonthly /\ [][NextMonthly]_vars

C30_MonthlyPeriods ==
    LET sent == hist.sent
        n == Len(sent)
        months == (Year(proc.end_date) - Year(proc.start_date)) * 12
                  + Month(proc.end_date) - Month(proc.start_date) + 1
        DayAfter(d) == IF Day(d) < DaysIn(Year(d), Month(d)) THEN d + 1
                       ELSE IF Month(d) < 12 THEN MakeDate(Year(d), Month(d) + 1, 1)
                       ELSE MakeDate(Year(d) + 1, 1, 1)
    IN  /\ \A i \in 1..n :
              /\ Day(sent[i].from_date) = 1
              /\ sent[i].from_date <= sent[i].to_date
              /\ sent[i].to_date \div 100 = sent[i].from_date \div 100
              /\ sent[i].to_date <= proc.end_date
              /\ i < n => Day(sent[i].to_date)
                            = DaysIn(Year(sent[i].to_date), Month(sent[i].to_date))
        /\ n > 0 => sent[1].from_date = (proc.start_date \div 100) * 100 + 1
        /\ \A i \in 1..(n - 1) : sent[i + 1].from_date = DayAfter(sent[i].to_date)
        /\ n <= IF months > 0 THEN months ELSE 0
        /\ proc.pc = "done" =>
              /\ n = IF months > 0 THEN months ELSE 0
              /\ n > 0 => sent[n].to_date = proc.end_date

C30_Witness ==
    /\ proc.pc = "done"
    /\ Len(hist.sent) = 3
    /\ hist.sent[1].from_date = 20231201
    /\ hist.sent[2].to_date = 20240131
    /\ hist.sent[3].to_date = 20240215
-----------------------------------------------------------------------------
(* _parse_date and _parse_datetime (utils/boe_consolidada_client.py:789-    *)
(* 871).  A string is the sequence of its characters.  In SpecDates proc    *)
(* holds the calls made and their results.                                  *)

DigitChars == <<"0", "1", "2", "3", "4", "5", "6", "7", "8", "9">>

IsDigit(c) == \E n \in 1..10 : DigitChars[n] = c

DigitOf(c) == (CHOOSE n \in 1..10 : DigitChars[n] = c) - 1

RECURSIVE Number(_)
\* int(chars) of a string of digits
Number(chars) ==
    IF Len(chars) = 0 THEN 0
    ELSE Number(SubSeq(chars, 1, Len(chars) - 1)) * 10 + DigitOf(chars[Len(chars)])

RECURSIVE Pad(_, _)
\* the digits of n, zero-padded to width
Pad(n, width) ==
    IF width = 0 THEN <<>> ELSE Pad(n \div 10, width - 1) \o <<DigitChars[(n % 10) + 1]>>

\* str.isdigit()
AllDigits(chars) == Len(chars) > 0 /\ \A k \in DOMAIN chars : IsDigit(chars[k])

RECURSIVE StripChars(_)
\* str.strip()
StripChars(chars) ==
    IF Len(chars) = 0 THEN chars
    ELSE IF Head(chars) = " " THEN StripChars(Tail(chars))
    ELSE IF chars[Len(chars)] = " " THEN StripChars(SubSeq(chars, 1, Len(chars) - 1))
    ELSE chars

RECURSIVE ReplaceZ(_)
\* lines 819, 860: s.replace('Z', '+00:00')
ReplaceZ(chars) ==
    IF Len(chars) = 0 THEN <<>>
    ELSE (IF Head(chars) = "Z" THEN <<"+", "0", "0", ":", "0", "0">> ELSE <<Head(chars)>>)
         \o ReplaceZ(Tail(chars))

\* the fields a format gathers
NoFields == [Y |-> 1, m |-> 1, d |-> 1, H |-> 0, M |-> 0, S |-> 0, tz |-> "naive"]

\* the directives of strptime ("%m": one or two digits) and the fields of
\* fromisoformat ("mm": two digits); every other token of a format is a
\* character that stands for itself, "*" for any one character
Directives == {"%Y", "%m", "%d", "%H", "%M", "%S", "YYYY", "mm", "dd", "HH", "MM", "SS"}

\* the widths a directive is tried with, in the order of its alternatives
Widths(tok) ==
    IF tok \in {"%Y", "YYYY"} THEN <<4>>
    ELSE IF tok \in {"mm", "dd", "HH", "MM", "SS"} THEN <<2>>
    ELSE <<2, 1>>

\* the numbers the pattern of a directive admits in a given width
Admits(tok, width, n) ==
    CASE tok \in {"%Y", "YYYY"} -> TRUE
      [] tok \in {"%m", "mm"} -> n >= 1 /\ n <= 12
      [] tok \in {"%d", "dd"} -> n >= 1 /\ n <= 31
      [] tok \in {"%H", "HH"} -> n <= 23
      [] tok \in {"%M", "MM"} -> n <= 59
      [] tok = "%S"           -> n <= 61
      [] tok = "SS"           -> n <= 59

FieldOf(tok) ==
    CASE tok \in {"%Y", "YYYY"} -> "Y"
      [] tok \in {"%m", "mm"} -> "m"
      [] tok \in {"%d", "dd"} -> "d"
      [] tok \in {"%H", "HH"} -> "H"
      [] tok \in {"%M", "MM"} -> "M"
      [] tok \in {"%S", "SS"} -> "S"

RECURSIVE MatchFormat(_, _, _)
\* the first way, if any, in which the whole string fits the format
MatchFormat(chars, fmt, fields) ==
    IF Len(fmt) = 0 THEN (IF Len(chars) = 0 THEN Some(fields) ELSE None)
    ELSE LET tok == Head(fmt)
             Try(width) ==
                 IF /\ Len(chars) >= width
                    /\ AllDigits(SubSeq(chars, 1, width))
                    /\ Admits(tok, width, Number(SubSeq(chars, 1, width)))
                 THEN MatchFormat(SubSeq(chars, width + 1, Len(chars)), Tail(fmt),
                                  [fields EXCEPT ![FieldOf(tok)] =
                                       Number(SubSeq(chars, 1, width))])
                 ELSE None
         IN  IF tok \in Directives
             THEN LET first == Try(Widths(tok)[1])
                  IN  IF first # None \/ Len(Widths(tok)) = 1 THEN first
                      ELSE Try(Widths(tok)[2])
             ELSE IF tok = "+00:00"
             THEN IF Len(chars) >= 6 /\ SubSeq(chars, 1, 6) = <<"+", "0", "0", ":", "0", "0">>
                  THEN MatchFormat(SubSeq(chars, 7, Len(chars)), Tail(fmt),
                                   [fields EXCEPT !.tz = "utc"])
                  ELSE None
             ELSE IF Len(chars) >= 1 /\ (tok = "*" \/ chars[1] = tok)
             THEN MatchFormat(Tail(chars), Tail(fmt), fields)
             ELSE None

\* the datetime of the fields, or ValueError when there is no such day
MakeDatetime(found) ==
    IF found = None THEN None
    ELSE LET f == found[1]
         IN  IF f.Y >= 1 /\ f.d <= DaysIn(f.Y, f.m) /\ f.S <= 59
             THEN Some([year |-> f.Y, month |-> f.m, day |-> f.d, hour |-> f.H,
                        minute |-> f.M, second |-> f.S, tzinfo |-> f.tz])
             ELSE None

\* datetime.strptime(chars, fmt): None stands for ValueError
strptime(chars, fmt) == MakeDatetime(MatchFormat(chars, fmt, NoFields))

\* the forms datetime.fromisoformat reads: up to Python 3.10 the extended
\* form only, from 3.11 on the basic form as well
IsoFormats(py311) ==
    LET dates == <<<<"YYYY", "-", "mm", "-", "dd">>>>
                 \o (IF py311 THEN <<<<"YYYY", "mm", "dd">>>> ELSE <<>>)
        times == <<<<"HH", ":", "MM", ":", "SS">>, <<"HH", ":", "MM">>, <<"HH">>>>
                 \o (IF py311 THEN <<<<"HH", "MM", "SS">>, <<"HH", "MM">>>> ELSE <<>>)
        zones == <<<<>>, <<"+00:00">>>>
    IN  dates
        \o Flatten([i \in DOMAIN dates |->
              Flatten([j \in DOMAIN times |->
                 [k \in DOMAIN zones |-> dates[i] \o <<"*">> \o times[j] \o zones[k]]])])

RECURSIVE FirstMatch(_, _)
FirstMatch(chars, formats) ==
    IF Len(formats) = 0 THEN None
    ELSE LET r == strptime(chars, Head(formats))
         IN  IF r # None THEN r ELSE FirstMatch(chars, Tail(formats))

fromisoformat_rejecting(chars, py311) == None

\* datetime.fromisoformat(chars): None stands for ValueError
fromisoformat(chars, py311) == FirstMatch(chars, IsoFormats(py311))

\* datetime.date()
DateOf(dt) ==
    IF dt = None THEN None
    ELSE Some([year |-> dt[1].year, month |-> dt[1].month, day |-> dt[1].day])

\* line 29
BOE_DATE_FORMAT_LENGTH == 8

\* lines 789-823; the argument is None or Some(string)
parse_date(date_str, py311) ==
    IF date_str = None \/ Len(date_str[1]) = 0 THEN None
    ELSE LET s == StripChars(date_str[1])
             compact == IF Len(s) = BOE_DATE_FORMAT_LENGTH /\ AllDigits(s)
                        THEN strptime(s, <<"%Y", "%m", "%d">>) ELSE None
             dashed == strptime(s, <<"%Y", "-", "%m", "-", "%d">>)
             iso == fromisoformat(ReplaceZ(s), py311)
         IN  IF compact # None THEN DateOf(compact)
             ELSE IF dashed # None THEN DateOf(dashed)
             ELSE DateOf(iso)

\* lines 825-871
parse_datetime(dt_str, py311) ==
    IF dt_str = None \/ Len(dt_str[1]) = 0 THEN None
    ELSE LET s == StripChars(dt_str[1])
             compact == IF Len(s) = BOE_DATE_FORMAT_LENGTH /\ AllDigits(s)
                        THEN strptime(s, <<"%Y", "%m", "%d">>) ELSE None
             stamp == IF (\E k \in DOMAIN s : s[k] = "T") /\ Len(s) > 0 /\ s[Len(s)] = "Z"
                      THEN strptime(s, <<"%Y", "%m", "%d", "T", "%H", "%M", "%S", "Z">>)
                      ELSE None
             iso == fromisoformat(ReplaceZ(s), py311)
             spaced == strptime(s, <<"%Y", "-", "%m", "-", "%d", " ", "%H", ":", "%M",
                                     ":", "%S">>)
         IN  IF compact # None THEN compact
             ELSE IF stamp # None THEN stamp
             ELSE IF iso # None THEN iso
             ELSE spaced

\* the written forms of an instant
CompactDate(t) == Pad(t.year, 4) \o Pad(t.month, 2) \o Pad(t.day, 2)

IsoDate(t) == Pad(t.year, 4) \o <<"-">> \o Pad(t.month, 2) \o <<"-">> \o Pad(t.day, 2)

CompactStamp(t) ==
    CompactDate(t) \o <<"T">> \o Pad(t.hour, 2) \o Pad(t.minute, 2) \o Pad(t.second, 2)
    \o <<"Z">>

IsoStamp(t) ==
    IsoDate(t) \o <<"T">> \o Pad(t.hour, 2) \o <<":">> \o Pad(t.minute, 2) \o <<":">>
    \o Pad(t.second, 2)

Instant(y, mo, d, h, mi, s) ==
    [year |-> y, month |-> mo, day |-> d, hour |-> h, minute |-> mi, second |-> s,
     tzinfo |-> "naive"]

\* the instants of the tests (test_consolidada_utils.py:186-262) and the last
\* day of a leap February
Instants ==
    {Instant(2024, 1, 15, 12, 0, 0), Instant(2018, 12, 6, 9, 30, 0),
     Instant(2024, 2, 29, 0, 0, 0)}

\* inputs that name no instant: nothing, blanks, a word, the 30th of
\* February, a 13th month, a 25th hour
BadInputs ==
    {None, Some(<<>>), Some(<<" ", " ">>), Some(<<"i", "n", "v", "a", "l", "i", "d">>),
     Some(CompactDate(Instant(2024, 2, 30, 0, 0, 0))),
     Some(IsoDate(Instant(2024, 13, 1, 0, 0, 0))),
     Some(CompactStamp(Instant(2024, 1, 15, 25, 0, 0))),
     Some(IsoStamp(Instant(2023, 2, 29, 12, 0, 0)))}

DateInputs ==
    BadInputs
    \cup {Some(CompactDate(t)) : t \in Instants}
    \cup {Some(IsoDate(t)) : t \in Instants}
    \cup {Some(CompactStamp(t)) : t \in Instants}
    \cup {Some(IsoStamp(t)) : t \in Instants}
    \cup {Some(<<" ">> \o CompactDate(t) \o <<" ">>) : t \in Instants}
    \cup {Some(IsoStamp(t) \o <<"Z">>) : t \in Instants}

DateFunctions == {"_parse_date", "_parse_datetime"}

\* one call of either function
CallParse(fn, input) ==
    /\ proc.pc \in {"first", "second"}
    /\ proc' = [proc EXCEPT
                  !.pc = IF proc.pc = "first" THEN "second" ELSE "done",
                  !.calls = Append(@, [fn |-> fn, input |-> input,
                                       result |-> IF fn = "_parse_date"
                                                  THEN parse_date(input, proc.py311)
                                                  ELSE parse_datetime(input, proc.py311)])]
    /\ UNCHANGED <<upstream, db, tx, hist>>

InitDates ==
    /\ upstream = <<>>
    /\ db = <<>>
    /\ tx = <<>>
    /\ \E py311 \in BOOLEAN : proc = [pc |-> "first", py311 |-> py311, calls |-> <<>>]
    /\ hist = InitHist

NextDates == \E fn \in DateFunctions, input \in DateInputs : CallParse(fn, input)

SpecDates == InitDates /\ [][NextDates]_vars

\* C27: both functions return None for an input that is missing or names no
\* instant, and each returns one and the same value, not None, for the
\* compact and the ISO form of an instant: _parse_date for YYYYMMDD and
\* YYYY-MM-DD, _parse_datetime for these and for YYYYMMDDTHHMMSSZ and
\* YYYY-MM-DDTHH:MM:SS.
C27_DatesParsed ==
    /\ \A i \in DOMAIN proc.calls :
          proc.calls[i].input \in BadInputs => proc.calls[i].result = None
    /\ \A i \in DOMAIN proc.calls : \A j \in DOMAIN proc.calls :
          (/\ proc.calls[i].fn = proc.calls[j].fn
           /\ \E t \in Instants :
                 \/ /\ proc.calls[i].input = Some(CompactDate(t))
                    /\ proc.calls[j].input = Some(IsoDate(t))
                 \/ /\ proc.calls[i].fn = "_parse_datetime"
                    /\ proc.calls[i].input = Some(CompactStamp(t))
                    /\ proc.calls[j].input = Some(IsoStamp(t)))
          => /\ proc.calls[i].result # None
             /\ proc.calls[i].result = proc.calls[j].result

C27_Witness ==
    /\ proc.pc = "done"
    /\ proc.calls[1].fn = "_parse_datetime"
    /\ proc.calls[2].fn = "_parse_datetime"
    /\ proc.calls[1].input = Some(CompactStamp(Instant(2018, 12, 6, 9, 30, 0)))
    /\ proc.calls[2].input = Some(IsoStamp(Instant(2018, 12, 6, 9, 30, 0)))
    /\ proc.calls[1].result = Some(Instant(2018, 12, 6, 9, 30, 0))
    /\ proc.calls[2].result = Some(Instant(2018, 12, 6, 9, 30, 0))

\* ---------------------------------------------------------------------
\* The JSON response parsers of the client (boe_consolidada_client.py).
\* A Python value read from a dict is None or Some(string); a container
\* is what a key holds: nothing, a list of items, one item as an object,
\* a string or a number.  An item is an object or something else.
\* ---------------------------------------------------------------------

\* bool(value) of None or of a string
Truthy(value) == value # None /\ value[1] # ""

\* a or b
PyOr(a, b) == IF Truthy(a) THEN a ELSE b

NoContainer == [t |-> "none", v |-> <<>>]

ListOf(items) == [t |-> "list", v |-> items]

ObjectOf(item) == [t |-> "dict", v |-> <<item>>]

\* an item that is no object: item.get raises AttributeError
NotADict == [t |-> "str"]

\* a string of n characters, each of them an item that is no object
StringOf(n) == [t |-> "str", v |-> [k \in 1..n |-> NotADict]]

\* a number other than zero
NonZero == [t |-> "num", v |-> <<>>]

\* data.get(name) of an object that holds one key
GetKey(actual_data, name) ==
    IF actual_data.key = name THEN actual_data.items ELSE NoContainer

\* "if x is None: x = ..." over the keys in turn
RECURSIVE FirstKey(_, _)
FirstKey(actual_data, names) ==
    IF names = <<>> THEN NoContainer
    ELSE IF GetKey(actual_data, Head(names)).t # "none"
         THEN GetKey(actual_data, Head(names))
         ELSE FirstKey(actual_data, Tail(names))

\* what a for loop over the container visits; a dict yields its keys and a
\* string its characters, none of which is an object
Iterate(container) ==
    CASE container.t = "list" -> container.v
      [] container.t = "dict" -> <<NotADict>>
      [] container.t = "str" -> container.v
      [] OTHER -> <<>>

\* the answer of a parser: the accepted items in order, or an exception
Parsed(out) == [raised |-> FALSE, out |-> out]

Raised == [raised |-> TRUE, out |-> <<>>]

NormaOf(item) ==
    [id_norma |-> PyOr(item.identificador, item.id), metadata |-> item]

NormaAccepted(norma) == Truthy(norma.id_norma)

\* the loop over the normas: each is converted inside try/except, where
\* item.get of a non-object raises and the item is passed over
RECURSIVE NormaLoop(_)
NormaLoop(items) ==
    IF items = <<>> THEN <<>>
    ELSE IF Head(items).t = "dict" /\ NormaAccepted(NormaOf(Head(items)))
         THEN <<NormaOf(Head(items))>> \o NormaLoop(Tail(items))
         ELSE NormaLoop(Tail(items))

\* bool(container)
TruthyContainer(container) ==
    \/ container.t = "dict"
    \/ container.t \in {"list", "str"} /\ container.v # <<>>
    \/ container.t = "num"

\* _parse_normas_json(data): 'data' as a list or as one object, else the
\* legacy keys; len(items) raises TypeError on a number
parse_normas_json(data) ==
    LET first == GetKey(data, "data")
        items == CASE first.t = "dict" -> ListOf(first.v)
                   [] first.t = "list" -> first
                   [] OTHER -> ListOf(<<>>)
        legacy == IF TruthyContainer(GetKey(data, "items"))
                  THEN GetKey(data, "items")
                  ELSE GetKey(data, "normas")
        chosen == IF items.v # <<>> THEN items
                  ELSE IF legacy.t = "dict" THEN ListOf(legacy.v) ELSE legacy
    IN  IF chosen.t = "num" THEN Raised
        ELSE Parsed(NormaLoop(Iterate(chosen)))

\* the object the keys are read from: data['data'] when it is an object or
\* a list with a first element, else the response itself
ActualData(data) == [key |-> data.key, items |-> data.items]

BloqueOf(bloque_item) ==
    [id_bloque |-> PyOr(bloque_item.id, bloque_item.identificador),
     titulo_bloque |-> bloque_item.titulo]

BloqueAccepted(bloque) == Truthy(bloque.id_bloque)

\* the loop over the bloques: each is converted inside try/except, where
\* item.get of a non-object raises and the item is passed over
RECURSIVE BloqueLoop(_)
BloqueLoop(items) ==
    IF items = <<>> THEN <<>>
    ELSE IF Head(items).t = "dict" /\ BloqueAccepted(BloqueOf(Head(items)))
         THEN <<BloqueOf(Head(items))>> \o BloqueLoop(Tail(items))
         ELSE BloqueLoop(Tail(items))

\* _parse_indice_json(data): the container is iterated as it is
parse_indice_json(data) ==
    LET bloques_list ==
            FirstKey(ActualData(data), <<"bloques", "bloque", "estructura", "indice">>)
    IN  IF bloques_list.t = "num" THEN Raised
        ELSE Parsed(BloqueLoop(Iterate(bloques_list)))

VersionOf(version_item) ==
    [id_norma_modificadora |-> version_item.id_norma_modificadora,
     html |-> PyOr(PyOr(PyOr(version_item.contenido_html, version_item.html),
                        version_item.contenido),
                   version_item.texto)]

VersionAccepted(version) == Truthy(version.html)

\* the loop over the versions: each is converted inside try/except, where
\* item.get of a non-object raises and the item is passed over
RECURSIVE VersionLoop(_)
VersionLoop(items) ==
    IF items = <<>> THEN <<>>
    ELSE IF Head(items).t = "dict" /\ VersionAccepted(VersionOf(Head(items)))
         THEN <<VersionOf(Head(items))>> \o VersionLoop(Tail(items))
         ELSE VersionLoop(Tail(items))

\* _parse_bloque_json(data): one object is made a list of one
parse_bloque_json(data) ==
    LET found == FirstKey(ActualData(data), <<"versiones", "historico", "versions">>)
        versiones_list == IF found.t = "dict" THEN ListOf(found.v) ELSE found
    IN  IF versiones_list.t = "num" THEN Raised
        ELSE Parsed(VersionLoop(Iterate(versiones_list)))

\* the longest list of items a response carries
MaxItems == 3

\* items read for their identifier: normas and bloques
IdItem(identificador, id) ==
    [t |-> "dict", identificador |-> identificador, id |-> id, titulo |-> Some("t")]

IdItems ==
    {IdItem(Some("A"), None), IdItem(None, Some("B")), IdItem(Some(""), Some("C")),
     IdItem(None, None), IdItem(Some(""), None), NotADict}

\* items read for their content: versions
VersionItem(id, contenido_html, html, contenido, texto) ==
    [t |-> "dict", id_norma_modificadora |-> Some(id), contenido_html |-> contenido_html,
     html |-> html, contenido |-> contenido, texto |-> texto]

VersionItems ==
    {VersionItem("M1", Some("<p>h</p>"), None, None, None),
     VersionItem("M2", None, Some(""), Some("c"), None),
     VersionItem("M3", None, None, None, Some("t")),
     VersionItem("M4", None, None, None, None),
     VersionItem("M5", Some(""), Some(""), None, None),
     NotADict}

ListsOf(items) == UNION {[1..n -> items] : n \in 0..MaxItems}

Containers(items) ==
    {NoContainer, NonZero, StringOf(2)}
    \cup {ObjectOf(item) : item \in items \ {NotADict}}
    \cup {ListOf(list) : list \in ListsOf(items)}

Wraps == {"bare", "data_dict", "data_list"}

Respond(wrap, key, items) ==
    [wrap |-> wrap, key |-> key, items |-> items]

IdleParser == [pc |-> "idle", calls |-> <<>>]

Called(fn, data, result) ==
    [proc EXCEPT !.pc = "done",
                 !.calls = Append(@, [fn |-> fn, data |-> data, result |-> result])]

ParseNormas(key, items) ==
    /\ proc.pc = "idle"
    /\ proc' = Called("_parse_normas_json", Respond("bare", key, items),
                      parse_normas_json(Respond("bare", key, items)))
    /\ UNCHANGED <<upstream, db, tx, hist>>

ParseIndice(wrap, key, items) ==
    /\ proc.pc = "idle"
    /\ proc' = Called("_parse_indice_json", Respond(wrap, key, items),
                      parse_indice_json(Respond(wrap, key, items)))
    /\ UNCHANGED <<upstream, db, tx, hist>>

ParseBloque(wrap, key, items) ==
    /\ proc.pc = "idle"
    /\ proc' = Called("_parse_bloque_json", Respond(wrap, key, items),
                      parse_bloque_json(Respond(wrap, key, items)))
    /\ UNCHANGED <<upstream, db, tx, hist>>

InitParsers ==
    /\ upstream = <<>>
    /\ db = <<>>
    /\ tx = <<>>
    /\ proc = IdleParser
    /\ hist = InitHist

NextParsers ==
    \/ \E key \in {"data", "items", "normas"}, items \in Containers(IdItems) :
          ParseNormas(key, items)
    \/ \E wrap \in Wraps, key \in {"bloques", "bloque", "estructura", "indice"},
          items \in Containers(IdItems) :
          ParseIndice(wrap, key, items)
    \/ \E wrap \in Wraps, key \in {"versiones", "historico", "versions"},
          items \in Containers(VersionItems) :
          ParseBloque(wrap, key, items)

SpecParsers == InitParsers /\ [][NextParsers]_vars

\* the items of a response: the elements of its list, or its one object
ItemsOf(container) ==
    IF container.t \in {"list", "dict"} THEN container.v ELSE <<>>

HasIdentifier(item) ==
    item.t = "dict" /\ (Truthy(item.identificador) \/ Truthy(item.id))

HasContent(item) ==
    /\ item.t = "dict"
    /\ \/ Truthy(item.contenido_html)
       \/ Truthy(item.html)
       \/ Truthy(item.contenido)
       \/ Truthy(item.texto)

\* C26: a parser raises on no response whose fields are missing or empty,
\* and returns, in their order, exactly the items of the response that have
\* an identifier (normas, bloques) or content (versions).
C26_ParsersDropExactly ==
    \A i \in DOMAIN proc.calls :
       LET call == proc.calls[i]
           items == ItemsOf(call.data.items)
       IN  /\ call.result.raised => call.data.items.t = "num"
           /\ call.fn = "_parse_normas_json" /\ ~call.result.raised =>
                 call.result.out
                 = [k \in DOMAIN SelectSeq(items, HasIdentifier) |->
                      NormaOf(SelectSeq(items, HasIdentifier)[k])]
           /\ call.fn = "_parse_indice_json" /\ ~call.result.raised =>
                 call.result.out
                 = [k \in DOMAIN SelectSeq(items, HasIdentifier) |->
                      BloqueOf(SelectSeq(items, HasIdentifier)[k])]
           /\ call.fn = "_parse_bloque_json" /\ ~call.result.raised =>
                 call.result.out
                 = [k \in DOMAIN SelectSeq(items, HasContent) |->
                      VersionOf(SelectSeq(items, HasContent)[k])]

-----------------------------------------------------------------------------
(* SpecEmbed: sync_bloques_batch over the batch, with re-runs, beside the   *)
(* embedding pipeline, which owns the transitions of the markers.  The      *)
(* pipeline is not in the repository; what it does to a marker is taken     *)
(* from scripts/smoke_test.py:369-374 (completed) and from the columns      *)
(* named in scripts/smoke_test.py:270-275 (status, attempts, last_error).   *)

\* the dirty blocks of the batch: a block with two revisions and a block
\* with one
EmbedBatch == <<BloqueRef("N1", BatchBloqueId(1)), BloqueRef("N1", BatchBloqueId(3))>>

\* the pipeline has reached the markers of the first block of the batch
EmbedTarget(q) ==
    \E f \in db.fragmento, v \in db.version :
        /\ f.id_fragmento = q.id_fragmento
        /\ v.id_version = f.id_version
        /\ v.id_bloque = EmbedBatch[1].id_bloque

\* UPDATE pending_embeddings SET ... WHERE id_fragmento = %s, committed
UpdateMarker(q, row) == db' = [db EXCEPT !.pending = (@ \ {q}) \cup {row}]

\* the pipeline takes a pending marker
EmbedClaims ==
    /\ \E q \in db.pending :
          /\ EmbedTarget(q)
          /\ q.status = "pending"
          /\ UpdateMarker(q, [q EXCEPT !.status = "processing", !.attempts = @ + 1])
    /\ UNCHANGED <<upstream, tx, proc, hist>>

\* the vector is stored: the marker is completed
EmbedCompletes ==
    /\ \E q \in db.pending :
          /\ q.status = "processing"
          /\ UpdateMarker(q, [q EXCEPT !.status = "completed"])
    /\ UNCHANGED <<upstream, tx, proc, hist>>

\* the embedding failed: the marker keeps the error
EmbedFails ==
    /\ \E q \in db.pending :
          /\ q.status = "processing"
          /\ UpdateMarker(q, [q EXCEPT !.status = "failed",
                                       !.last_error = Some("error")])
    /\ UNCHANGED <<upstream, tx, proc, hist>>

EmbeddingPipeline == EmbedClaims \/ EmbedCompletes \/ EmbedFails

InitEmbed ==
    /\ upstream = BatchUpstream
    /\ db = EmptyDb
    /\ tx = [w \in Writers |-> EmptyTx]
    /\ proc = [w \in Writers |->
                 IF w = 1
                 THEN [IdleProc EXCEPT !.task = "bloques", !.pc = "start", !.run = 1,
                         !.dirty_bloques = EmbedBatch]
                 ELSE IdleProc]
    /\ hist = InitHist

NextEmbed == NextBatch \/ EmbedClaims \/ EmbedCompletes \/ EmbedFails

SpecEmbed == InitEmbed /\ [][NextEmbed]_vars

\* C28: no step of sync_bloques_batch changes or removes a committed
\* pending_embeddings row: a marker keeps its status, attempt count and
\* last error until the embedding pipeline changes them, through commits,
\* crashes and re-runs over blocks whose fragments exist.
C28_MarkersLeftAlone ==
    [][(\A q \in db.pending : q \in db'.pending) \/ EmbeddingPipeline]_vars

\* a completed marker of a block that the second run of the batch has
\* processed again and committed
C28_Witness ==
    /\ proc[1].run = 2
    /\ proc[1].pc = "done"
    /\ proc[1].returned = Len(EmbedBatch)
    /\ \E q \in db.pending : q.status = "completed" /\ q.attempts = 1
    /\ \E q \in db.pending : q.status = "failed" /\ q.last_error = Some("error")

-----------------------------------------------------------------------------
\* C29: every iteration of the loop of _split_by_size leaves the start
\* position strictly further in the text than it found it, for every target
\* size and overlap of the calls.
C29_StartMovesForward ==
    [][proc.pc = "split" /\ proc'.pc = "split" => proc'.s_start > proc.s_start]_vars
====
